---- MODULE Spec2Model ----
(***************************************************************************)
(* Model of the background script's download queue, download history and   *)
(* durable storage (src/extension/background.js).                          *)
(*                                                                         *)
(* The script runs on one event loop.  Every action below is one run of    *)
(* code between two real suspension points (a storage read or write, the   *)
(* download itself, a timer).  A storage write takes its snapshot when it   *)
(* is issued and storage serves requests in issue order, so a write is     *)
(* modelled at the point of the call and a read at the point of the call.  *)
(***************************************************************************)
EXTENDS Integers, Sequences, FiniteSets, TLC

\* ---------------------------------------------------------------- bounds
MaxIds == 2          \* number of Job ids ever generated (enqueue + retry)
MaxRestarts == 1     \* number of process restarts
MaxRetries == 2      \* number of retryFromHistory calls in flight at once
MaxAdds == 1         \* number of ADD_TO_QUEUE commands in flight at once
MaxTimers == 1       \* number of pending re-trigger timers that are told apart
MaxFifoIds == 3      \* Job ids of the FIFO specification
CapSlack == 1        \* the stored History of the cap specification is at most this short of the cap
MaxFetches == 2      \* prefetch triggers per resource that may reach the resolver
MaxLookups == 1      \* getCachedInfoAsync() calls that wait for a fetch
MaxCycles == 2       \* the clock runs for this many lifetimes of a cache entry

\* ------------------------------------------------------ program constants
MAX_HISTORY_ENTRIES == 100
CACHE_TTL == 300000          \* 5 * 60 * 1000 ms
POLL_MS == 200               \* setTimeout(resolve, 200)
MAX_POLLS == 50              \* for (let i = 0; i < 50; i++)

Videos == {"v1", "v2"}
Qualities == {"720p", "1080p"}   \* quality / qualityLabel / subtitles of an item
Selected == {"720p"}             \* the rendition selected in the popup at an enqueue
FifoVideos == {"v1", "v2", "v3"}
Errors == {"network down"}
NoError == "null"            \* error: null / undefined / ""
NoCount == 0 - 1             \* retryCount field absent (undefined)

Ids == 1..MaxIds

\* ----------------------------------------------------------------- state
VARIABLES
    downloadQueue,      \* the in-memory Job list
    isProcessingQueue,  \* the re-entrancy guard
    downloadHistory,    \* the in-memory History, newest first
    storedQueue,        \* storage key "downloadQueue"
    storedHistory,      \* storage key "downloadHistory"
    startup,            \* position of initializeHistory() / initializeQueue()
    passes,             \* processQueue() invocations between guard set and clear
    timers,             \* pending setTimeout(() => processQueue(), 500)
    adds,               \* addToQueue() calls of ADD_TO_QUEUE awaiting saveQueue()
    retries,            \* retryFromHistory() calls in flight
    retryAll,           \* the retryAllFailed() call in flight
    nextId,             \* next fresh Job id
    restarts,           \* restarts so far
    reply,              \* the answer of the last step
    popup,              \* the popup page: open or not, the fate of the last sendMessage(), what it received
    videoInfoCache,     \* the Map videoId -> {data, timestamp, fetching}
    now,                \* Date.now()
    prefetches,         \* prefetchVideoInfo() calls awaiting fetch() or response.json()
    lookups,            \* getCachedInfoAsync() calls awaiting their 200 ms timer
    fetched,            \* per videoId, the requests sent to the server's /info
    waited,             \* getCachedInfoAsync() calls that went on to wait so far
    found               \* what getCachedInfo() returned in the last step, and to whom

queueVars == <<downloadQueue, isProcessingQueue, downloadHistory, storedQueue,
               storedHistory, startup, passes, timers, adds,
               retries, retryAll, nextId, restarts, reply, popup>>

cacheVars == <<videoInfoCache, now, prefetches, lookups, fetched, waited, found>>

vars == <<downloadQueue, isProcessingQueue, downloadHistory, storedQueue,
          storedHistory, startup, passes, timers, adds,
          retries, retryAll, nextId, restarts, reply, popup,
          videoInfoCache, now, prefetches, lookups, fetched, waited, found>>

\* --------------------------------------------------------------- helpers
NoBlob == [present |-> FALSE, value |-> <<>>]
Blob(v) == [present |-> TRUE, value |-> v]

\* The answer of the last step.  A command's {success: false, error: ...} is
\* kept as success = FALSE (the error text is not told apart); retryAllFailed()
\* answers {retried, total}, or {retried: 0} with no total field when History
\* holds no failed entry; every other step answers Quiet.
Answer(success, retried, total) == [success |-> success, retried |-> retried, total |-> total]
Quiet == Answer(TRUE, 0, 0)
Failure(error) == Answer(FALSE, 0, 0)

IsLive(q) == q.status = "pending" \/ q.status = "downloading"

RemoveAt(s, i) == SubSeq(s, 1, i - 1) \o SubSeq(s, i + 1, Len(s))

\* Array.prototype.findIndex on the id; 0 stands for -1
FindIndex(s, id) == IF \E i \in 1..Len(s) : s[i].id = id
                    THEN CHOOSE i \in 1..Len(s) :
                            /\ s[i].id = id
                            /\ \A j \in 1..(i-1) : s[j].id # id
                    ELSE 0

OrZero(c) == IF c = NoCount THEN 0 ELSE c

\* ------------------------------------------------------- Job and History
\* The item the popup builds for ADD_TO_QUEUE: a fresh id, status "pending",
\* error null and no retryCount field.
QueueItem(id, vid, quality) ==
    [id |-> id, videoId |-> vid, quality |-> quality, status |-> "pending",
     error |-> NoError, retryCount |-> NoCount]

ExistsPendingOnly(queue, vid) ==
    \E i \in 1..Len(queue) : queue[i].videoId = vid /\ queue[i].status = "pending"

ExistsAnyStatus(queue, vid) ==
    \E i \in 1..Len(queue) : queue[i].videoId = vid

\* const exists = downloadQueue.some(q => q.videoId === item.videoId && (pending || downloading))
Exists(queue, vid) ==
    \E i \in 1..Len(queue) : queue[i].videoId = vid /\ IsLive(queue[i])

NextItemIndexLast(queue) ==
    IF \E i \in 1..Len(queue) : queue[i].status = "pending"
    THEN CHOOSE i \in 1..Len(queue) :
            /\ queue[i].status = "pending"
            /\ \A j \in (i+1)..Len(queue) : queue[j].status # "pending"
    ELSE 0

NextItemIndexWithFailed(queue) ==
    IF \E i \in 1..Len(queue) : queue[i].status \in {"pending", "failed"}
    THEN CHOOSE i \in 1..Len(queue) :
            /\ queue[i].status \in {"pending", "failed"}
            /\ \A j \in 1..(i-1) : queue[j].status \notin {"pending", "failed"}
    ELSE 0

\* pendingItems[0]: index of the first Job in list order with status "pending", 0 if none
NextItemIndex(queue) ==
    IF \E i \in 1..Len(queue) : queue[i].status = "pending"
    THEN CHOOSE i \in 1..Len(queue) :
            /\ queue[i].status = "pending"
            /\ \A j \in 1..(i-1) : queue[j].status # "pending"
    ELSE 0

ResetStatusKeep(st) == st

\* the map of initializeQueue: "downloading" becomes "pending", the rest is kept
ResetStatus(st) == IF st = "downloading" THEN "pending" ELSE st
ResetDownloading(queue) ==
    [i \in 1..Len(queue) |-> [queue[i] EXCEPT !.status = ResetStatus(queue[i].status)]]

IsPending(q) == q.status = "pending"
KeepPendingOnly(queue) == SelectSeq(queue, IsPending)

\* the filter of clearCompletedFromQueue
KeepLive(queue) == SelectSeq(queue, IsLive)

\* the entry addToHistory builds from a Job
HistoryEntry(item, status) ==
    [id |-> item.id, videoId |-> item.videoId, quality |-> item.quality,
     status |-> status, error |-> item.error,
     retryCount |-> OrZero(item.retryCount)]

TruncateTail(h) ==
    IF Len(h) > MAX_HISTORY_ENTRIES
    THEN SubSeq(h, Len(h) - MAX_HISTORY_ENTRIES + 1, Len(h)) ELSE h

\* downloadHistory.slice(0, MAX_HISTORY_ENTRIES) when longer than the cap
Truncate(h) == IF Len(h) > MAX_HISTORY_ENTRIES THEN SubSeq(h, 1, MAX_HISTORY_ENTRIES) ELSE h

RecordAtEnd(h, item, status) == Truncate(h \o <<HistoryEntry(item, status)>>)

\* unshift + cap
Record(h, item, status) == Truncate(<<HistoryEntry(item, status)>> \o h)

\* the results handleDownload can hand to processQueue
Outcomes ==
    {[kind |-> "ok", error |-> NoError]}
    \cup {[kind |-> k, error |-> e] : k \in {"fail", "throw"}, e \in Errors \cup {NoError}}

FailureMessageGeneric(o) == IF o.kind = "fail" THEN "Download failed" ELSE "Unknown error"

\* the error message processQueue stores for a failure
FailureMessage(o) ==
    IF o.error # NoError THEN o.error
    ELSE IF o.kind = "fail" THEN "Download failed" ELSE "Unknown error"

\* ---------------------------------------------------- cache entries
\* The popup page at script load: not open, nothing sent to it yet.
NoMessage == [sent |-> FALSE, queue |-> <<>>, isProcessing |-> FALSE, history |-> <<>>]
Closed == [open |-> FALSE, last |-> "none", received |-> NoMessage]

\* A cache entry: absent from the Map, {fetching: true, timestamp}, or
\* {data, timestamp, fetching: false}.  The data of the n-th request for a
\* videoId is n; getCachedInfo() returns null (NoData) when it has no data.
NoData == 0
Absent == [state |-> "absent", timestamp |-> 0, data |-> NoData]
FetchingEntry(t) == [state |-> "fetching", timestamp |-> t, data |-> NoData]
ReadyEntry(t, data) == [state |-> "ready", timestamp |-> t, data |-> data]

\* no call answered in this step / the answer of getCachedInfoAsync(videoId)
Nothing == [called |-> FALSE, answered |-> FALSE, videoId |-> "", data |-> NoData]
Got(vid, data) == [called |-> TRUE, answered |-> FALSE, videoId |-> vid, data |-> data]
Found(vid, data) == [called |-> TRUE, answered |-> TRUE, videoId |-> vid, data |-> data]

CacheInit ==
    /\ videoInfoCache = [vid \in Videos |-> Absent]
    /\ now = 0
    /\ prefetches = {}
    /\ lookups = {}
    /\ fetched = [vid \in Videos |-> 0] /\ waited = 0
    /\ found = Nothing

\* ------------------------------------------------------------------ Init
\* A fresh profile: nothing in storage; the script has been loaded, so both
\* storage reads of the startup code have been issued.
Init ==
    /\ downloadQueue = <<>>
    /\ isProcessingQueue = FALSE
    /\ downloadHistory = <<>>
    /\ storedQueue = NoBlob
    /\ storedHistory = NoBlob
    /\ startup = [pc |-> "history", queue |-> NoBlob, history |-> NoBlob]
    /\ passes = {}
    /\ timers = 0
    /\ adds = 0
    /\ retries = {}
    /\ retryAll = [pc |-> "idle", items |-> <<>>, i |-> 0, retried |-> 0]
    /\ nextId = 1
    /\ restarts = 0
    /\ reply = Quiet
    /\ popup = Closed
    /\ CacheInit

\* --------------------------------------------------------- processQueue
\* Job objects are shared by reference between downloadQueue and the nextItem
\* of a running pass.  attached = TRUE while the pass's nextItem is still an
\* element of downloadQueue; a write to nextItem then shows in the list.
Detach(ps, queue) ==
    {[p EXCEPT !.attached = p.attached /\ (\E i \in 1..Len(queue) : queue[i].id = p.nextItem.id)] : p \in ps}
DetachAll(ps) == {[p EXCEPT !.attached = FALSE] : p \in ps}

SetItemDrop(queue, item) ==
    LET Other(q) == q.id # item.id IN SelectSeq(queue, Other)

\* nextItem.status = ...: the write shows in the list element that is nextItem
SetItem(queue, item) ==
    [i \in 1..Len(queue) |-> IF queue[i].id = item.id THEN item ELSE queue[i]]

BusyNever == FALSE
BusyUntilFetch == \E p \in passes : p.pc = "marked"

\* the guard test of processQueue
Busy == isProcessingQueue

\* notifyPopup(): browser.runtime.sendMessage() resolves when the popup page
\* listens and rejects when it does not; each promise carries a catch, so
\* nothing is thrown to the caller in either case
NotifyThrowsWhenClosed(open) == ~open
NotifyThrows(open) == FALSE
\* the two messages of notifyPopup(), QUEUE_UPDATED {queue, isProcessing} and
\* HISTORY_UPDATED {history}, as the popup page receives them
Message(queue, flag, history) ==
    [sent |-> TRUE, queue |-> queue, isProcessing |-> flag, history |-> history]
notifyPopup(queue, flag, history) ==
    popup' = IF popup.open
             THEN [popup EXCEPT !.last = "delivered",
                                !.received = Message(queue, flag, history)]
             ELSE [popup EXCEPT !.last = "rejected"]

\* processQueue() up to its first await: guard, selection, mark, saveQueue()
processQueue ==
    LET idx == NextItemIndex(downloadQueue) IN
    IF Busy \/ idx = 0
    THEN UNCHANGED <<downloadQueue, isProcessingQueue, storedQueue, passes>>
    ELSE LET marked == [downloadQueue EXCEPT ![idx].status = "downloading"] IN
         /\ isProcessingQueue' = TRUE
         /\ downloadQueue' = marked
         /\ storedQueue' = Blob(marked)
         /\ passes' = passes \cup {[pc |-> "marked", nextItem |-> marked[idx], attached |-> TRUE]}

\* after "await saveQueue()": notifyPopup(), then handleDownload() is called
PassFetch(p) ==
    /\ p \in passes /\ p.pc = "marked"
    /\ notifyPopup(downloadQueue, isProcessingQueue, downloadHistory)
    /\ passes' = IF NotifyThrows(popup.open)
                 THEN passes \ {p}
                 ELSE (passes \ {p}) \cup {[p EXCEPT !.pc = "fetching"]}
    /\ reply' = Quiet
    /\ UNCHANGED <<downloadQueue, isProcessingQueue, downloadHistory, storedQueue,
                   storedHistory, startup, timers, adds, retries,
                   retryAll, nextId, restarts>>
    /\ UNCHANGED cacheVars

TerminalRequeue(item, o) ==
    IF o.kind = "ok"
    THEN [item EXCEPT !.status = "completed"]
    ELSE [item EXCEPT !.status = "pending", !.error = FailureMessage(o)]

TerminalUnwritten(item, o) == item

\* the terminal Job processQueue makes of nextItem for a result of handleDownload
Terminal(item, o) ==
    IF o.kind = "ok"
    THEN [item EXCEPT !.status = "completed"]
    ELSE [item EXCEPT !.status = "failed", !.error = FailureMessage(o)]

\* handleDownload() settles: status (and error) are written to nextItem, then
\* addToHistory(nextItem, status) runs up to its "await saveHistory()"
PassResult(p, o) ==
    /\ p \in passes /\ p.pc = "fetching"
    /\ LET done == Terminal(p.nextItem, o) IN
        /\ downloadQueue' = IF p.attached THEN SetItem(downloadQueue, done) ELSE downloadQueue
        /\ downloadHistory' = Record(downloadHistory, done, done.status)
        /\ storedHistory' = Blob(downloadHistory')
        /\ passes' = (passes \ {p}) \cup {[p EXCEPT !.pc = "recorded", !.nextItem = done]}
        /\ reply' = Quiet
    /\ UNCHANGED <<isProcessingQueue, storedQueue, startup, timers,
                   adds, retries, retryAll, nextId, restarts>>
    /\ UNCHANGED <<cacheVars, popup>>

\* addToHistory() returns: "await saveQueue()" is issued
PassSave(p) ==
    /\ p \in passes /\ p.pc = "recorded"
    /\ storedQueue' = Blob(downloadQueue)
    /\ passes' = (passes \ {p}) \cup {[p EXCEPT !.pc = "saving"]}
    /\ reply' = Quiet
    /\ UNCHANGED <<downloadQueue, isProcessingQueue, downloadHistory, storedHistory,
                   startup, timers, adds, retries, retryAll, nextId,
                   restarts>>
    /\ UNCHANGED <<cacheVars, popup>>

PassEndNoTimer(p) ==
    /\ p \in passes /\ p.pc = "saving"
    /\ isProcessingQueue' = FALSE
    /\ passes' = passes \ {p}
    /\ reply' = Quiet
    /\ UNCHANGED <<downloadQueue, downloadHistory, storedQueue, storedHistory,
                   startup, timers, adds, retries, retryAll, nextId, restarts>>
    /\ notifyPopup(downloadQueue, FALSE, downloadHistory)
    /\ UNCHANGED cacheVars

PassEndAbort(p) ==
    /\ p \in passes /\ p.pc = "saving"
    /\ passes' = passes \ {p}
    /\ reply' = Quiet
    /\ UNCHANGED <<downloadQueue, isProcessingQueue, downloadHistory, storedQueue,
                   storedHistory, startup, timers, adds, retries, retryAll, nextId,
                   restarts>>
    /\ notifyPopup(downloadQueue, isProcessingQueue, downloadHistory)
    /\ UNCHANGED cacheVars

\* saveQueue() returns: the guard is cleared, notifyPopup(), setTimeout(processQueue, 500)
PassEnd(p) ==
    /\ p \in passes /\ p.pc = "saving"
    /\ isProcessingQueue' = FALSE
    /\ notifyPopup(downloadQueue, FALSE, downloadHistory)
    /\ passes' = passes \ {p}
    /\ timers' = IF timers < MaxTimers /\ ~NotifyThrows(popup.open) THEN timers + 1 ELSE timers
    /\ reply' = Quiet
    /\ UNCHANGED <<downloadQueue, downloadHistory, storedQueue, storedHistory,
                   startup, adds, retries, retryAll, nextId, restarts>>
    /\ UNCHANGED cacheVars

\* the 500 ms timer fires: processQueue()
TimerFire ==
    /\ timers > 0
    /\ timers' = timers - 1
    /\ processQueue
    /\ reply' = Quiet
    /\ UNCHANGED <<downloadHistory, storedHistory, startup, adds,
                   retries, retryAll, nextId, restarts>>
    /\ UNCHANGED <<cacheVars, popup>>

\* message START_QUEUE: processQueue()
StartQueue ==
    /\ processQueue
    /\ reply' = Quiet
    /\ UNCHANGED <<downloadHistory, storedHistory, startup, timers,
                   adds, retries, retryAll, nextId, restarts>>
    /\ UNCHANGED <<cacheVars, popup>>

\* ------------------------------------------------------------- startup
\* Loading the script calls initializeHistory() and then initializeQueue();
\* each runs up to its storage read.  Storage answers in issue order, so the
\* history read returns first.

\* initializeHistory() resumes with the blob its storage read returned
InitHistoryLoad ==
    /\ startup.pc = "history"
    /\ startup' = [startup EXCEPT !.pc = "queue", !.history = NoBlob]
    /\ downloadHistory' = IF startup.history.present THEN startup.history.value
                          ELSE downloadHistory
    /\ reply' = Quiet
    /\ UNCHANGED <<downloadQueue, isProcessingQueue, storedQueue, storedHistory,
                   passes, timers, adds, retries, retryAll, nextId, restarts>>
    /\ UNCHANGED <<cacheVars, popup>>

\* initializeQueue() resumes with the blob its storage read returned
InitQueueLoad ==
    /\ startup.pc = "queue"
    /\ IF startup.queue.present
       THEN /\ downloadQueue' = ResetDownloading(startup.queue.value)
            /\ storedQueue' = Blob(downloadQueue')
            /\ passes' = DetachAll(passes)
            /\ startup' = [startup EXCEPT !.pc = "saving"]
       ELSE /\ startup' = [startup EXCEPT !.pc = "done"]
            /\ UNCHANGED <<downloadQueue, storedQueue, passes>>
    /\ reply' = Quiet
    /\ UNCHANGED <<isProcessingQueue, downloadHistory, storedHistory,
                   timers, adds, retries, retryAll, nextId, restarts>>
    /\ UNCHANGED <<cacheVars, popup>>

\* initializeQueue() after its "await saveQueue()": processQueue()
InitQueueStart ==
    /\ startup.pc = "saving"
    /\ startup' = [startup EXCEPT !.pc = "done", !.queue = NoBlob]
    /\ processQueue
    /\ reply' = Quiet
    /\ UNCHANGED <<downloadHistory, storedHistory, timers, adds,
                   retries, retryAll, nextId, restarts>>
    /\ UNCHANGED <<cacheVars, popup>>

\* The background process ends and the script is loaded again: memory is
\* lost, storage is kept, both startup reads are issued.
Restart ==
    /\ restarts < MaxRestarts
    /\ restarts' = restarts + 1
    /\ downloadQueue' = <<>>
    /\ isProcessingQueue' = FALSE
    /\ downloadHistory' = <<>>
    /\ startup' = [pc |-> "history", queue |-> storedQueue, history |-> storedHistory]
    /\ passes' = {}
    /\ timers' = 0
    /\ adds' = 0
    /\ retries' = {}
    /\ retryAll' = [pc |-> "idle", items |-> <<>>, i |-> 0, retried |-> 0]
    /\ reply' = Quiet
    /\ UNCHANGED <<storedQueue, storedHistory, nextId>>
    /\ UNCHANGED <<cacheVars, popup>>

\* ------------------------------------------------------ queue commands
\* ids the retryAllFailed() in flight may still need
IdsReserved == IF retryAll.pc = "running" THEN Len(retryAll.items) - retryAll.i ELSE 0

\* message ADD_TO_QUEUE: addToQueue(item) up to "await saveQueue()"
AddToQueue(vid) ==
    /\ IF Exists(downloadQueue, vid)
       THEN /\ reply' = Failure("Video already in queue")
            /\ UNCHANGED <<downloadQueue, storedQueue, adds, nextId>>
       ELSE /\ nextId' = nextId + 1
            /\ \E quality \in Selected :
                    downloadQueue' = Append(downloadQueue, QueueItem(nextId, vid, quality))
            /\ storedQueue' = Blob(downloadQueue')
            /\ adds' = adds + 1
            /\ reply' = Quiet
    /\ UNCHANGED <<isProcessingQueue, downloadHistory, storedHistory, startup, passes, timers, retries, retryAll, restarts>>
    /\ UNCHANGED <<cacheVars, popup>>

\* addToQueue() after "await saveQueue()": processQueue(), then the success result
AddToQueueDone ==
    /\ adds > 0
    /\ adds' = adds - 1
    /\ processQueue
    /\ reply' = Quiet
    /\ UNCHANGED <<downloadHistory, storedHistory, startup, timers,
                   retries, retryAll, nextId, restarts>>
    /\ UNCHANGED <<cacheVars, popup>>

RemoveFromQueueAnyStatus(id) ==
    /\ LET index == FindIndex(downloadQueue, id) IN
       IF index # 0
       THEN /\ downloadQueue' = RemoveAt(downloadQueue, index)
            /\ storedQueue' = Blob(downloadQueue')
            /\ passes' = Detach(passes, downloadQueue')
            /\ reply' = Quiet
       ELSE /\ reply' = Failure("Item not found")
            /\ UNCHANGED <<downloadQueue, storedQueue, passes>>
    /\ UNCHANGED <<isProcessingQueue, downloadHistory, storedHistory, startup, timers, adds, retries, retryAll, nextId, restarts>>
    /\ UNCHANGED <<cacheVars, popup>>

\* message REMOVE_FROM_QUEUE: removeFromQueue(id)
RemoveFromQueue(id) ==
    /\ LET index == FindIndex(downloadQueue, id) IN
       IF index # 0 /\ downloadQueue[index].status # "downloading"
       THEN /\ downloadQueue' = RemoveAt(downloadQueue, index)
            /\ storedQueue' = Blob(downloadQueue')
            /\ passes' = Detach(passes, downloadQueue')
            /\ reply' = Quiet
       ELSE /\ reply' = IF index # 0 THEN Failure("Cannot remove item while downloading")
                                     ELSE Failure("Item not found")
            /\ UNCHANGED <<downloadQueue, storedQueue, passes>>
    /\ UNCHANGED <<isProcessingQueue, downloadHistory, storedHistory, startup, timers, adds, retries, retryAll, nextId, restarts>>
    /\ UNCHANGED <<cacheVars, popup>>

\* message CLEAR_COMPLETED: clearCompletedFromQueue()
ClearCompleted ==
    /\ downloadQueue' = KeepLive(downloadQueue)
    /\ storedQueue' = Blob(downloadQueue')
    /\ passes' = Detach(passes, downloadQueue')
    /\ reply' = Quiet
    /\ UNCHANGED <<isProcessingQueue, downloadHistory, storedHistory, startup, timers, adds, retries, retryAll, nextId, restarts>>
    /\ UNCHANGED <<cacheVars, popup>>

\* ---------------------------------------------------- history commands
\* message CLEAR_HISTORY: clearHistory()
ClearHistory ==
    /\ downloadHistory' = <<>>
    /\ storedHistory' = Blob(downloadHistory')
    /\ reply' = Quiet
    /\ UNCHANGED <<downloadQueue, isProcessingQueue, storedQueue, startup, passes,
                   timers, adds, retries, retryAll, nextId, restarts>>
    /\ UNCHANGED <<cacheVars, popup>>

IsFailed(h) == h.status = "failed"
NotFailed(h) == h.status # "failed"

\* message CLEAR_FAILED_HISTORY: clearFailedFromHistory()
ClearFailedHistory ==
    /\ downloadHistory' = SelectSeq(downloadHistory, NotFailed)
    /\ storedHistory' = Blob(downloadHistory')
    /\ reply' = Quiet
    /\ UNCHANGED <<downloadQueue, isProcessingQueue, storedQueue, startup, passes,
                   timers, adds, retries, retryAll, nextId, restarts>>
    /\ UNCHANGED <<cacheVars, popup>>

\* message REMOVE_FROM_HISTORY: removeFromHistory(id)
RemoveFromHistory(id) ==
    /\ LET index == FindIndex(downloadHistory, id) IN
       IF index # 0
       THEN /\ downloadHistory' = RemoveAt(downloadHistory, index)
            /\ storedHistory' = Blob(downloadHistory')
            /\ reply' = Quiet
       ELSE /\ reply' = Failure("Item not found in history")
            /\ UNCHANGED <<downloadHistory, storedHistory>>
    /\ UNCHANGED <<downloadQueue, isProcessingQueue, storedQueue, startup, passes,
                   timers, adds, retries, retryAll, nextId, restarts>>
    /\ UNCHANGED <<cacheVars, popup>>

\* ------------------------------------------------------------- retry
RetryableAnyStatus(h, id) == FindIndex(h, id) # 0

\* retryFromHistory(id) answers at once unless the first entry with that id is failed
Retryable(h, id) == FindIndex(h, id) # 0 /\ h[FindIndex(h, id)].status = "failed"

RetryItemSameCount(newId, historyItem) ==
    [id |-> newId, videoId |-> historyItem.videoId, quality |-> historyItem.quality,
     status |-> "pending", error |-> NoError,
     retryCount |-> OrZero(historyItem.retryCount)]

RetryItemKeepsError(newId, historyItem) ==
    [id |-> newId, videoId |-> historyItem.videoId, quality |-> historyItem.quality,
     status |-> "pending", error |-> historyItem.error,
     retryCount |-> OrZero(historyItem.retryCount) + 1]

\* the new queue item retryFromHistory builds from a history entry
RetryItem(newId, historyItem) ==
    [id |-> newId, videoId |-> historyItem.videoId, quality |-> historyItem.quality,
     status |-> "pending", error |-> NoError,
     retryCount |-> OrZero(historyItem.retryCount) + 1]

RetryBeginKeepsEntry(id, all, tasks) ==
    LET index == FindIndex(downloadHistory, id) IN
    /\ UNCHANGED <<downloadHistory, storedHistory>>
    /\ nextId' = nextId + 1
    /\ retries' = tasks \cup {[id |-> id, item |-> RetryItem(nextId, downloadHistory[index]),
                               pc |-> "removing", all |-> all]}

\* retryFromHistory(id) of a retryable entry, up to the "await saveHistory()"
\* inside removeFromHistory(id); tasks are the other calls in flight
RetryBegin(id, all, tasks) ==
    LET index == FindIndex(downloadHistory, id) IN
    /\ downloadHistory' = RemoveAt(downloadHistory, index)
    /\ storedHistory' = Blob(downloadHistory')
    /\ nextId' = nextId + 1
    /\ retries' = tasks \cup {[id |-> id, item |-> RetryItem(nextId, downloadHistory[index]),
                               pc |-> "removing", all |-> all]}

\* the loop of retryAllFailed() from item i on: calls that answer at once are
\* passed over, the first call that suspends is begun, or the loop ends
NextRetryable(items, i, h) ==
    IF \E j \in i..Len(items) : Retryable(h, items[j])
    THEN CHOOSE j \in i..Len(items) :
            /\ Retryable(h, items[j])
            /\ \A k \in i..(j-1) : ~Retryable(h, items[k])
    ELSE 0

RetryAllLoop(items, i, retried, tasks) ==
    LET j == NextRetryable(items, i, downloadHistory) IN
    IF j = 0
    THEN /\ retryAll' = [pc |-> "idle", items |-> <<>>, i |-> 0, retried |-> 0]
         /\ retries' = tasks
         /\ reply' = Answer(TRUE, retried, IF Len(items) = 0 THEN NoCount ELSE Len(items))
         /\ UNCHANGED <<downloadHistory, storedHistory, nextId>>
    ELSE /\ retryAll' = [pc |-> "running", items |-> items, i |-> j, retried |-> retried]
         /\ RetryBegin(items[j], TRUE, tasks)
         /\ reply' = Quiet

\* what a finished retryFromHistory() call hands back to its caller
RetryReturn(t, success) ==
    IF t.all
    THEN RetryAllLoop(retryAll.items, retryAll.i + 1,
                      retryAll.retried + (IF success THEN 1 ELSE 0), retries \ {t})
    ELSE /\ retries' = retries \ {t}
         /\ reply' = IF success THEN Quiet ELSE Failure("Video already in queue")
         /\ UNCHANGED <<downloadHistory, storedHistory, nextId, retryAll>>

\* message RETRY_DOWNLOAD: retryFromHistory(id)
RetryFromHistory(id) ==
    /\ IF Retryable(downloadHistory, id)
       THEN /\ nextId + IdsReserved <= MaxIds
            /\ Cardinality(retries) < MaxRetries
            /\ RetryBegin(id, FALSE, retries)
            /\ reply' = Quiet
       ELSE /\ reply' = IF FindIndex(downloadHistory, id) = 0
                        THEN Failure("Item not found in history")
                        ELSE Failure("Only failed downloads can be retried")
            /\ UNCHANGED <<downloadHistory, storedHistory, nextId, retries>>
    /\ UNCHANGED <<downloadQueue, isProcessingQueue, storedQueue, startup, passes,
                   timers, adds, retryAll, restarts>>
    /\ UNCHANGED <<cacheVars, popup>>

\* retryFromHistory() after "await removeFromHistory(id)": addToQueue(newQueueItem)
\* up to its "await saveQueue()", or its duplicate answer
RetryAdd(t) ==
    /\ t \in retries /\ t.pc = "removing"
    /\ IF Exists(downloadQueue, t.item.videoId)
       THEN /\ RetryReturn(t, FALSE)
            /\ UNCHANGED <<downloadQueue, storedQueue>>
       ELSE /\ downloadQueue' = Append(downloadQueue, t.item)
            /\ storedQueue' = Blob(downloadQueue')
            /\ retries' = (retries \ {t}) \cup {[t EXCEPT !.pc = "adding"]}
            /\ reply' = Quiet
            /\ UNCHANGED <<downloadHistory, storedHistory, nextId, retryAll>>
    /\ UNCHANGED <<isProcessingQueue, startup, passes, timers, adds, restarts>>
    /\ UNCHANGED <<cacheVars, popup>>

\* addToQueue() after "await saveQueue()": processQueue(), the success result
RetryDone(t) ==
    /\ t \in retries /\ t.pc = "adding"
    /\ processQueue
    /\ RetryReturn(t, TRUE)
    /\ UNCHANGED <<startup, timers, adds, restarts>>
    /\ UNCHANGED <<cacheVars, popup>>

FailedIds(h) == LET f == SelectSeq(h, IsFailed) IN [i \in 1..Len(f) |-> f[i].id]

\* message RETRY_ALL_FAILED: retryAllFailed()
RetryAllFailed ==
    /\ retryAll.pc = "idle"
    /\ Cardinality(retries) < MaxRetries
    /\ nextId + Len(FailedIds(downloadHistory)) - 1 <= MaxIds
    /\ RetryAllLoop(FailedIds(downloadHistory), 1, 0, retries)
    /\ UNCHANGED <<downloadQueue, isProcessingQueue, storedQueue, startup, passes,
                   timers, adds, restarts>>
    /\ UNCHANGED <<cacheVars, popup>>

\* ------------------------------------------------------- videoInfoCache
\* cached && !cached.fetching && (Date.now() - cached.timestamp < CACHE_TTL)
HitAtExpiry(e, t) == e.state = "ready" /\ t - e.timestamp <= CACHE_TTL
Hit(e, t) == e.state = "ready" /\ t - e.timestamp < CACHE_TTL

\* getCachedInfo(videoId): the value it returns ...
CachedData(cache, vid, t) == IF Hit(cache[vid], t) THEN cache[vid].data ELSE NoData

AfterGetRenews(cache, vid, t) ==
    IF cache[vid].state = "ready" /\ ~Hit(cache[vid], t)
    THEN [cache EXCEPT ![vid].timestamp = t]
    ELSE cache

AfterGetByAge(cache, vid, t) ==
    IF cache[vid].state # "absent" /\ t - cache[vid].timestamp >= CACHE_TTL
    THEN [cache EXCEPT ![vid] = Absent]
    ELSE cache

\* ... and the Map it leaves: an entry that is not fetching and not a hit is deleted
AfterGet(cache, vid, t) ==
    IF cache[vid].state = "ready" /\ ~Hit(cache[vid], t)
    THEN [cache EXCEPT ![vid] = Absent]
    ELSE cache

\* the early return of prefetchVideoInfo()
SkipsReadyOnly(e, t) == e.state = "ready" /\ t - e.timestamp < CACHE_TTL
SkipsAnyEntry(e, t) == e.state # "absent"
Skips(e, t) ==
    e.state # "absent" /\ (e.state = "fetching" \/ t - e.timestamp < CACHE_TTL)

\* prefetchVideoInfo(url, videoId) on the Map cache, up to "await fetch(...)"
prefetchVideoInfo(cache, vid) ==
    IF Skips(cache[vid], now)
    THEN /\ videoInfoCache' = cache
         /\ UNCHANGED <<prefetches, fetched>>
    ELSE /\ videoInfoCache' = [cache EXCEPT ![vid] = FetchingEntry(now)]
         /\ fetched' = [fetched EXCEPT ![vid] = fetched[vid] + 1]
         /\ prefetches' = prefetches \cup {[videoId |-> vid, pc |-> "fetch", n |-> fetched[vid] + 1]}

\* message PREFETCH_INFO
PrefetchInfo(vid) ==
    /\ prefetchVideoInfo(videoInfoCache, vid)
    /\ found' = Nothing
    /\ UNCHANGED <<now, lookups, waited>>
    /\ UNCHANGED queueVars

\* tabs.onUpdated / tabs.onActivated on a watch page:
\* if (!getCachedInfo(videoId)) prefetchVideoInfo(tab.url, videoId)
TabUpdated(vid) ==
    /\ IF CachedData(videoInfoCache, vid, now) # NoData
       THEN UNCHANGED <<videoInfoCache, prefetches, fetched>>
       ELSE prefetchVideoInfo(AfterGet(videoInfoCache, vid, now), vid)
    /\ found' = Got(vid, CachedData(videoInfoCache, vid, now))
    /\ UNCHANGED <<now, lookups, waited>>
    /\ UNCHANGED queueVars

\* videoInfoCache.delete(videoId) on each failure path of prefetchVideoInfo()
DeletedKeep(cache, vid) == cache
Deleted(cache, vid) == [cache EXCEPT ![vid] = Absent]

\* fetch() settles: it throws, the response is not ok, or response.json() is awaited
FetchResults == {"ok", "http error", "throw"}
FetchReturn(p, r) ==
    /\ p \in prefetches /\ p.pc = "fetch"
    /\ IF r = "ok"
       THEN /\ prefetches' = (prefetches \ {p}) \cup {[p EXCEPT !.pc = "json"]}
            /\ UNCHANGED videoInfoCache
       ELSE /\ prefetches' = prefetches \ {p}
            /\ videoInfoCache' = Deleted(videoInfoCache, p.videoId)
    /\ found' = Nothing
    /\ UNCHANGED <<now, lookups, fetched, waited>>
    /\ UNCHANGED queueVars

\* response.json() settles: it throws, data.success is false, or the data is cached
JsonResults == {"success", "no success", "throw"}
JsonReturn(p, r) ==
    /\ p \in prefetches /\ p.pc = "json"
    /\ prefetches' = prefetches \ {p}
    /\ videoInfoCache' = IF r = "success"
                         THEN [videoInfoCache EXCEPT ![p.videoId] = ReadyEntry(now, p.n)]
                         ELSE Deleted(videoInfoCache, p.videoId)
    /\ found' = Nothing
    /\ UNCHANGED <<now, lookups, fetched, waited>>
    /\ UNCHANGED queueVars

\* message GET_CACHED_INFO: getCachedInfoAsync(videoId) up to its first timer,
\* or to its answer
GetCachedInfo(vid) ==
    LET data == CachedData(videoInfoCache, vid, now)
        after == AfterGet(videoInfoCache, vid, now) IN
    /\ videoInfoCache' = after
    /\ IF data = NoData /\ after[vid].state = "fetching"
       THEN /\ lookups' = lookups \cup {[videoId |-> vid, since |-> now, i |-> 0, due |-> now + POLL_MS]}
            /\ waited' = waited + 1
            /\ found' = Got(vid, NoData)
       ELSE /\ found' = Found(vid, data)
            /\ UNCHANGED <<lookups, waited>>
    /\ UNCHANGED <<now, prefetches, fetched>>
    /\ UNCHANGED queueVars

\* the two exits of the loop of getCachedInfoAsync() that answer null: the
\* entry is gone, or this was the last turn
GoneNever(cache, vid) == FALSE
Gone(cache, vid) == cache[vid].state = "absent"
LastPollLate(i) == i + 1 >= MAX_POLLS + 1
LastPoll(i) == i + 1 >= MAX_POLLS

\* the 200 ms timer of a waiting getCachedInfoAsync() fires, the earliest
\* first and when it is due: one turn of its loop
Poll(w) ==
    /\ w \in lookups
    /\ \A v \in lookups : w.due <= v.due
    /\ now' = w.due
    /\ LET data == CachedData(videoInfoCache, w.videoId, now')
           after == AfterGet(videoInfoCache, w.videoId, now') IN
        /\ videoInfoCache' = after
        /\ IF data # NoData \/ Gone(after, w.videoId) \/ LastPoll(w.i)
           THEN /\ lookups' = lookups \ {w}
                /\ found' = Found(w.videoId, data)
           ELSE /\ lookups' = (lookups \ {w}) \cup {[w EXCEPT !.i = w.i + 1, !.due = now' + POLL_MS]}
                /\ found' = Got(w.videoId, NoData)
    /\ UNCHANGED <<prefetches, fetched, waited>>
    /\ UNCHANGED queueVars

\* Time passes, up to the instant just before or at the expiry of an entry;
\* a timer fires when it is due, so time does not pass beyond a pending timer.
Instants ==
    {videoInfoCache[vid].timestamp + d :
        vid \in {v \in Videos : videoInfoCache[v].state # "absent"},
        d \in {CACHE_TTL - 1, CACHE_TTL}}
Tick(t) ==
    /\ t \in Instants /\ t > now
    /\ t <= MaxCycles * (CACHE_TTL + MAX_POLLS * POLL_MS)
    /\ \A w \in lookups : t <= w.due
    /\ now' = t
    /\ found' = Nothing
    /\ UNCHANGED <<videoInfoCache, prefetches, lookups, fetched, waited>>
    /\ UNCHANGED queueVars

\* ------------------------------------------------------- specifications
\* The download results the main specification draws from: a success and a
\* thrown "network down".
SomeOutcomes == {o \in Outcomes : o.kind = "ok" \/ (o.kind = "throw" /\ o.error # NoError)}

PassStep(outcomes) ==
    \/ \E p \in passes : PassFetch(p)
    \/ \E p \in passes, o \in outcomes : PassResult(p, o)
    \/ \E p \in passes : PassSave(p)
    \/ \E p \in passes : PassEnd(p)
    \/ TimerFire

Next ==
    \/ PassStep(SomeOutcomes)
    \/ StartQueue
    \/ InitHistoryLoad
    \/ InitQueueLoad
    \/ InitQueueStart
    \/ Restart
    \/ \E vid \in Videos :
          nextId + IdsReserved <= MaxIds /\ adds < MaxAdds /\ AddToQueue(vid)
    \/ AddToQueueDone
    \/ \E id \in Ids : RemoveFromQueue(id)
    \/ ClearCompleted
    \/ ClearHistory
    \/ ClearFailedHistory
    \/ \E id \in Ids : RemoveFromHistory(id)
    \/ \E id \in Ids : RetryFromHistory(id)
    \/ \E t \in retries : RetryAdd(t)
    \/ \E t \in retries : RetryDone(t)
    \/ RetryAllFailed

Spec == Init /\ [][Next]_vars

\* The queue alone, for three resources: enqueue, clear and the execution
\* loop of one process run on a fresh profile.
NextFifo ==
    \/ PassStep(SomeOutcomes)
    \/ StartQueue
    \/ InitHistoryLoad
    \/ InitQueueLoad
    \/ \E vid \in FifoVideos : nextId <= MaxFifoIds /\ AddToQueue(vid)
    \/ AddToQueueDone
    \/ ClearCompleted

SpecFifo == Init /\ [][NextFifo]_vars

\* A profile that has been in use: storage holds an emptied queue and a
\* History of n earlier outcomes, the oldest last.
OldEntry(k) ==
    [id |-> MaxIds + k, videoId |-> IF k % 2 = 0 THEN "v1" ELSE "v2",
     quality |-> IF k % 3 = 0 THEN "720p" ELSE "1080p",
     status |-> IF k % 7 = 0 THEN "failed" ELSE "completed",
     error |-> IF k % 7 = 0 THEN "network down" ELSE NoError,
     retryCount |-> k % 2]
OldHistory(n) == [k \in 1..n |-> OldEntry(k)]

InitCap ==
    \E n \in (MAX_HISTORY_ENTRIES - CapSlack)..MAX_HISTORY_ENTRIES :
        /\ downloadQueue = <<>>
        /\ isProcessingQueue = FALSE
        /\ downloadHistory = <<>>
        /\ storedQueue = Blob(<<>>)
        /\ storedHistory = Blob(OldHistory(n))
        /\ startup = [pc |-> "history", queue |-> storedQueue, history |-> storedHistory]
        /\ passes = {}
        /\ timers = 0
        /\ adds = 0
        /\ retries = {}
        /\ retryAll = [pc |-> "idle", items |-> <<>>, i |-> 0, retried |-> 0]
        /\ nextId = 1
        /\ restarts = 0
        /\ reply = Quiet
        /\ popup = Closed
        /\ CacheInit

NextCap ==
    \/ PassStep(SomeOutcomes)
    \/ InitHistoryLoad
    \/ InitQueueLoad
    \/ InitQueueStart
    \/ \E vid \in Videos : nextId <= MaxIds /\ adds < MaxAdds /\ AddToQueue(vid)
    \/ AddToQueueDone
    \/ ClearCompleted
    \/ ClearFailedHistory

SpecCap == InitCap /\ [][NextCap]_vars

\* A profile whose History holds earlier outcomes, newest first: resource v1
\* failed on its first attempt and on a fresh enqueue after a retry, resource
\* v2 completed.  Retry, retry-all, enqueue and the execution loop of one
\* process run.
RetryHistory ==
    <<[id |-> MaxIds + 3, videoId |-> "v1", quality |-> "720p", status |-> "failed",
       error |-> "network down", retryCount |-> 0],
      [id |-> MaxIds + 2, videoId |-> "v1", quality |-> "1080p", status |-> "failed",
       error |-> "network down", retryCount |-> 1],
      [id |-> MaxIds + 1, videoId |-> "v2", quality |-> "720p", status |-> "completed",
       error |-> NoError, retryCount |-> 0]>>

HistoryIds == 1..(MaxIds + Len(RetryHistory))

InitRetry ==
    /\ downloadQueue = <<>>
    /\ isProcessingQueue = FALSE
    /\ downloadHistory = <<>>
    /\ storedQueue = Blob(<<>>)
    /\ storedHistory = Blob(RetryHistory)
    /\ startup = [pc |-> "history", queue |-> storedQueue, history |-> storedHistory]
    /\ passes = {}
    /\ timers = 0
    /\ adds = 0
    /\ retries = {}
    /\ retryAll = [pc |-> "idle", items |-> <<>>, i |-> 0, retried |-> 0]
    /\ nextId = 1
    /\ restarts = 0
    /\ reply = Quiet
    /\ popup = Closed
    /\ CacheInit

NextRetry ==
    \/ PassStep(SomeOutcomes)
    \/ InitHistoryLoad
    \/ InitQueueLoad
    \/ InitQueueStart
    \/ \E vid \in Videos :
          nextId + IdsReserved <= MaxIds /\ adds < MaxAdds /\ AddToQueue(vid)
    \/ AddToQueueDone
    \/ ClearCompleted
    \/ \E id \in HistoryIds : RetryFromHistory(id)
    \/ \E t \in retries : RetryAdd(t)
    \/ \E t \in retries : RetryDone(t)
    \/ RetryAllFailed

SpecRetry == InitRetry /\ [][NextRetry]_vars

\* The execution loop of one process run on a fresh profile, with every
\* result handleDownload can hand back.  A download ends, a storage write
\* returns and a timer fires: the continuation steps are weakly fair.
NextLoop ==
    \/ PassStep(Outcomes)
    \/ StartQueue
    \/ InitHistoryLoad
    \/ InitQueueLoad
    \/ \E vid \in Videos : nextId <= MaxIds /\ adds < MaxAdds /\ AddToQueue(vid)
    \/ AddToQueueDone
    \/ ClearCompleted

SpecLoop ==
    /\ Init /\ [][NextLoop]_vars
    /\ WF_vars(PassStep(Outcomes))
    /\ WF_vars(AddToQueueDone)

\* The popup page is opened or closed: its listener for QUEUE_UPDATED and
\* HISTORY_UPDATED exists while it is open.
PopupToggle ==
    /\ popup' = [popup EXCEPT !.open = ~popup.open, !.received = NoMessage]
    /\ UNCHANGED <<downloadQueue, isProcessingQueue, downloadHistory, storedQueue,
                   storedHistory, startup, passes, timers, adds,
                   retries, retryAll, nextId, restarts, reply>>
    /\ UNCHANGED cacheVars

\* The execution loop and the queue commands over the process runs, with a
\* popup page that comes and goes.
NextNotify ==
    \/ PassStep(SomeOutcomes)
    \/ StartQueue
    \/ InitHistoryLoad
    \/ InitQueueLoad
    \/ \E vid \in Videos : nextId <= MaxIds /\ adds < MaxAdds /\ AddToQueue(vid)
    \/ AddToQueueDone
    \/ \E id \in Ids : RemoveFromQueue(id)
    \/ ClearCompleted
    \/ PopupToggle
    \/ InitQueueStart
    \/ Restart

SpecNotify == Init /\ [][NextNotify]_vars

\* The cache for every resource: prefetch triggers, the server's answers, the
\* clock, and the lookups that are answered at once (no fetch is under way
\* for the resource asked for), in one process run.  A trigger is drawn while
\* the resource may still be requested or the trigger is skipped.
MayTrigger(vid) == fetched[vid] < MaxFetches \/ Skips(videoInfoCache[vid], now)

NextCache ==
    \/ \E vid \in Videos : MayTrigger(vid) /\ PrefetchInfo(vid)
    \/ \E vid \in Videos : MayTrigger(vid) /\ TabUpdated(vid)
    \/ \E p \in prefetches, r \in FetchResults : FetchReturn(p, r)
    \/ \E p \in prefetches, r \in JsonResults : JsonReturn(p, r)
    \/ \E vid \in Videos :
          videoInfoCache[vid].state # "fetching" /\ GetCachedInfo(vid)
    \/ \E t \in Instants : Tick(t)

SpecCache == Init /\ [][NextCache]_vars

\* The cache for one resource, with the lookups that wait for its fetch.  A
\* timer that is due fires: the loop of a waiting getCachedInfoAsync() is
\* weakly fair, and the clock does not pass a pending timer (Tick).
Awaited == {"v1"}

NextAwait ==
    \/ \E vid \in Awaited : MayTrigger(vid) /\ PrefetchInfo(vid)
    \/ \E vid \in Awaited : MayTrigger(vid) /\ TabUpdated(vid)
    \/ \E p \in prefetches, r \in FetchResults : FetchReturn(p, r)
    \/ \E p \in prefetches, r \in JsonResults : JsonReturn(p, r)
    \/ \E vid \in Awaited : waited < MaxLookups /\ GetCachedInfo(vid)
    \/ \E w \in lookups : Poll(w)
    \/ \E t \in Instants : Tick(t)

SpecAwait ==
    /\ Init /\ [][NextAwait]_vars
    /\ WF_vars(\E w \in lookups : Poll(w))

\* ================================================================ claims
Live(q) == q.status \in {"pending", "downloading"}
Finished(q) == q.status \in {"completed", "failed"}
QueueIdx == 1..Len(downloadQueue)
HistIdx == 1..Len(downloadHistory)
ActiveJobs == {i \in QueueIdx : downloadQueue[i].status = "downloading"}
Fetching == {p \in passes : p.pc = "fetching"}

\* C1: in every reachable state, for each resourceId at most one Job of the
\* Job list is Pending or Active.
C1_OneLiveJobPerResource ==
    \A i, j \in QueueIdx :
        (i # j /\ Live(downloadQueue[i]) /\ Live(downloadQueue[j]))
            => downloadQueue[i].videoId # downloadQueue[j].videoId

\* C1 witness: after a restart the list holds two Jobs of one resource, one
\* finished and one Pending or Active.
C1_Witness ==
    /\ restarts > 0
    /\ \E i, j \in QueueIdx :
        /\ downloadQueue[i].videoId = downloadQueue[j].videoId
        /\ Finished(downloadQueue[i]) /\ Live(downloadQueue[j])

\* C2: an enqueue for resource X is rejected and leaves the Job list as it is
\* while a Job of the list with resource X is Pending or Active; otherwise
\* (the earlier Jobs of X are Completed, Failed or removed) it is accepted:
\* one Pending Job for X is appended at the end, the rest of the list is kept.
C2_EnqueueStep(vid) ==
    IF \E i \in QueueIdx : downloadQueue[i].videoId = vid /\ Live(downloadQueue[i])
    THEN /\ ~reply'.success
         /\ downloadQueue' = downloadQueue
         /\ storedQueue' = storedQueue
    ELSE /\ reply'.success
         /\ Len(downloadQueue') = Len(downloadQueue) + 1
         /\ SubSeq(downloadQueue', 1, Len(downloadQueue)) = downloadQueue
         /\ downloadQueue'[Len(downloadQueue')].videoId = vid
         /\ downloadQueue'[Len(downloadQueue')].status = "pending"
         /\ storedQueue' = Blob(downloadQueue')

C2_DuplicateSuppression ==
    [][\A vid \in Videos : AddToQueue(vid) => C2_EnqueueStep(vid)]_vars

\* C2 witness: an enqueue for X was accepted behind a finished Job of X, and
\* a further command has just been rejected.
C2_Witness ==
    /\ ~reply.success
    /\ \E i, j \in QueueIdx :
        /\ i < j
        /\ downloadQueue[i].videoId = downloadQueue[j].videoId
        /\ Finished(downloadQueue[i]) /\ Live(downloadQueue[j])
        /\ downloadQueue[j].retryCount = NoCount

\* C3: at most one Job of the list is Active and at most one download issued
\* by the execution loop is in flight.
C3_Serialized ==
    /\ Cardinality(ActiveJobs) <= 1
    /\ Cardinality({p \in passes : p.pc \in {"marked", "fetching"}}) <= 1
    /\ Cardinality(passes) <= 1

\* C3 witness: a download is in flight while another Job is Pending and the
\* trigger of its enqueue is due.
C3_Witness ==
    /\ Fetching # {}
    /\ adds > 0
    /\ \E i \in QueueIdx : downloadQueue[i].status = "pending"

\* C4: FIFO.  A pass makes Active the first Pending Job in list order; Jobs
\* are listed in the order they were enqueued, so the Job made Active is the
\* one enqueued earliest among the Pending ones, and no Job is Active while a
\* Job enqueued before it is still Pending.
C4_MadeActive(i) ==
    /\ i \in QueueIdx
    /\ Len(downloadQueue') = Len(downloadQueue)
    /\ downloadQueue[i].status = "pending"
    /\ downloadQueue'[i].status = "downloading"

C4_FifoStep ==
    \A i \in QueueIdx :
        C4_MadeActive(i) =>
            \A j \in QueueIdx :
                downloadQueue[j].status = "pending" =>
                    (i <= j /\ downloadQueue[i].id <= downloadQueue[j].id)

C4_FifoState ==
    \A i, j \in QueueIdx :
        (i < j /\ downloadQueue[j].status = "downloading")
            => downloadQueue[i].status # "pending"

C4_Fifo == [][C4_FifoStep /\ C4_FifoState']_vars

\* C4 witness: of three Jobs A, B, C enqueued in that order, A is finished, B
\* is Active and C is still Pending.
C4_Witness ==
    /\ Len(downloadQueue) = 3
    /\ downloadQueue[1].id < downloadQueue[2].id
    /\ downloadQueue[2].id < downloadQueue[3].id
    /\ Finished(downloadQueue[1])
    /\ downloadQueue[2].status = "downloading"
    /\ downloadQueue[3].status = "pending"

\* C5: restart recovery.  The startup load turns every Job persisted as
\* Active into a Pending one and keeps every other Job, its status, its fields
\* and its position; the pass the load then triggers takes the first Pending
\* Job; and no Job of the list is Active while the guard is clear.
C5_Reloaded(old, new) ==
    /\ new.id = old.id
    /\ new.videoId = old.videoId
    /\ new.error = old.error
    /\ new.retryCount = old.retryCount
    /\ new.status = IF old.status = "downloading" THEN "pending" ELSE old.status

C5_LoadStep ==
    (InitQueueLoad /\ startup.queue.present)
        => /\ Len(downloadQueue') = Len(startup.queue.value)
           /\ \A i \in 1..Len(downloadQueue') :
                C5_Reloaded(startup.queue.value[i], downloadQueue'[i])

C5_StartStep ==
    (InitQueueStart /\ ~isProcessingQueue
     /\ \E i \in QueueIdx : downloadQueue[i].status = "pending")
        => /\ isProcessingQueue'
           /\ \E i \in QueueIdx : C4_MadeActive(i)

C5_GuardState == isProcessingQueue \/ ActiveJobs = {}

C5_RestartRecovery == [][C5_LoadStep /\ C5_StartStep /\ C5_GuardState']_vars

\* C5 witness: the load has run on a blob that held an Active Job, and that
\* Job is Pending in the list.
C5_Witness ==
    /\ startup.pc = "saving"
    /\ ~isProcessingQueue
    /\ \E i \in 1..Len(startup.queue.value) :
        /\ startup.queue.value[i].status = "downloading"
        /\ i \in QueueIdx
        /\ downloadQueue[i].id = startup.queue.value[i].id
        /\ downloadQueue[i].status = "pending"

\* C6: no enqueue is accepted before the persisted queue has been read: the
\* startup load never discards a Job of the list whose enqueue has returned.
C6_JobsKept ==
    \A i \in QueueIdx :
        \E j \in 1..Len(downloadQueue') : downloadQueue'[j].id = downloadQueue[i].id

C6_LoadKeepsEnqueued ==
    [][(InitQueueLoad /\ adds = 0 /\ retries = {}) => C6_JobsKept]_vars

\* C7: no pass has started (no Job marked Active, no download issued) while
\* the reset of the persisted queue is still to be applied.
C7_NoPassBeforeReset ==
    (startup.pc \in {"history", "queue"} /\ startup.queue.present)
        => (passes = {} /\ ~isProcessingQueue /\ ActiveJobs = {})

\* C8 as written: the Job list and History never hold the same Job id.
C8_NeverInBoth ==
    \A i \in QueueIdx, j \in HistIdx : downloadQueue[i].id # downloadHistory[j].id

\* C8 amended: recording the terminal outcome leaves the Job in the Job list
\* with its terminal status (the list and History then hold the same id), and
\* the rest of the pass does not touch the list.
C8_ResultStep(p) ==
    /\ Len(downloadQueue') = Len(downloadQueue)
    /\ \A i \in QueueIdx : downloadQueue'[i].id = downloadQueue[i].id
    /\ p.attached =>
        \E i \in QueueIdx :
            /\ downloadQueue[i].id = p.nextItem.id
            /\ downloadQueue[i].status = "downloading"
            /\ Finished(downloadQueue'[i])
            /\ downloadHistory'[1].id = downloadQueue'[i].id
            /\ downloadHistory'[1].status = downloadQueue'[i].status

C8_JobStaysListed ==
    [][/\ \A p \in passes : (\E o \in Outcomes : PassResult(p, o)) => C8_ResultStep(p)
       /\ \A p \in passes : (PassSave(p) \/ PassEnd(p)) => downloadQueue' = downloadQueue]_vars

\* C8 witness: a pass has finished and its Job is in the list, finished, and
\* in History under the same id.
C8_Witness ==
    /\ passes = {} /\ ~isProcessingQueue /\ timers > 0
    /\ \E i \in QueueIdx, j \in HistIdx :
        /\ downloadQueue[i].id = downloadHistory[j].id
        /\ Finished(downloadQueue[i])
        /\ downloadQueue[i].status = downloadHistory[j].status

\* C9: a Job reaching a terminal state in a pass puts exactly one entry into
\* History, at index 0, the older entries following in their order; the entry
\* has the Job's id, resourceId, status, error and retryCount (a Job without a
\* retryCount field counts as retryCount 0).
C9_SameFields(job, entry) ==
    /\ entry.id = job.id
    /\ entry.videoId = job.videoId
    /\ entry.status = job.status
    /\ entry.status \in {"completed", "failed"}
    /\ entry.error = job.error
    /\ entry.retryCount = (IF job.retryCount = NoCount THEN 0 ELSE job.retryCount)

C9_RecordedStep(p) ==
    \E q \in passes' :
        /\ q.pc = "recorded" /\ q.nextItem.id = p.nextItem.id
        /\ C9_SameFields(q.nextItem, downloadHistory'[1])
        /\ p.attached =>
            \E i \in QueueIdx : /\ downloadQueue'[i].id = q.nextItem.id
                                /\ C9_SameFields(downloadQueue'[i], downloadHistory'[1])
        /\ Len(downloadHistory') = Len(downloadHistory) + 1
           \/ Len(downloadHistory') = MAX_HISTORY_ENTRIES
        /\ \A k \in 1..(Len(downloadHistory') - 1) :
                downloadHistory'[k + 1] = downloadHistory[k]

C9_OneEntryPerOutcome ==
    [][/\ \A p \in passes : (\E o \in Outcomes : PassResult(p, o)) => C9_RecordedStep(p)
       /\ (\A p \in passes, o \in Outcomes : ~PassResult(p, o))
            => Len(downloadHistory') <= Len(downloadHistory) \/ InitHistoryLoad]_vars

\* C9 witness: a failed Job with its error is at the head of History and in
\* the list, behind an older entry.
C9_Witness ==
    /\ Len(downloadHistory) >= 2
    /\ downloadHistory[1].status = "failed"
    /\ downloadHistory[1].error = "network down"
    /\ \E p \in passes : p.pc = "recorded" /\ p.nextItem.id = downloadHistory[1].id
    /\ \E i \in QueueIdx : /\ downloadQueue[i].id = downloadHistory[1].id
                           /\ downloadQueue[i].error = "network down"

\* C10: History never holds more than 100 entries; recording into a History
\* of 100 evicts the oldest (last) entry only: 100 entries remain, the new one
\* at index 0 and the 99 newer old entries behind it in their order.
C10_Bounded == Len(downloadHistory) <= MAX_HISTORY_ENTRIES

C10_FullStep(p) ==
    Len(downloadHistory) = MAX_HISTORY_ENTRIES =>
        /\ Len(downloadHistory') = MAX_HISTORY_ENTRIES
        /\ downloadHistory'[1].id = p.nextItem.id
        /\ \A k \in 1..(MAX_HISTORY_ENTRIES - 1) :
                downloadHistory'[k + 1] = downloadHistory[k]

C10_HistoryCap ==
    [][/\ C10_Bounded'
       /\ \A p \in passes : (\E o \in Outcomes : PassResult(p, o)) => C10_FullStep(p)]_vars

\* C10 witness: an outcome has been recorded into a full History: the new
\* entry is at the head, the former head second, the former last entry gone.
C10_Witness ==
    /\ Len(downloadHistory) = MAX_HISTORY_ENTRIES
    /\ downloadHistory[1].id <= MaxIds
    /\ downloadHistory[2] = OldEntry(1)
    /\ downloadHistory[MAX_HISTORY_ENTRIES] = OldEntry(MAX_HISTORY_ENTRIES - 1)

\* ---------------------------------------------------------------- retry
FailedAt(k) == k \in HistIdx /\ downloadHistory[k].status = "failed"
FirstWithId(k) ==
    k \in HistIdx /\ \A m \in 1..(k - 1) : downloadHistory[m].id # downloadHistory[k].id
LiveFor(vid) == \E i \in QueueIdx : downloadQueue[i].videoId = vid /\ Live(downloadQueue[i])
WithoutEntry(k) ==
    [m \in 1..(Len(downloadHistory) - 1) |->
        IF m < k THEN downloadHistory[m] ELSE downloadHistory[m + 1]]

\* C11: retry(id) on a Failed entry whose resource has no Pending or Active
\* Job takes that entry out of History (the others keep their order) and
\* appends one new Pending Job at the end of the Job list, with the entry's
\* resourceId and renditionSpec, an id that differs from the entry's, without
\* the old error, and retryCount = the entry's retryCount + 1.
C11_NewJob(job, entry) ==
    /\ job.videoId = entry.videoId
    /\ job.quality = entry.quality
    /\ job.id # entry.id
    /\ \A i \in QueueIdx : job.id # downloadQueue[i].id
    /\ job.status = "pending"
    /\ job.retryCount = entry.retryCount + 1

C11_CallStep(k) ==
    (RetryFromHistory(downloadHistory[k].id) /\ FailedAt(k) /\ FirstWithId(k))
        => /\ downloadHistory' = WithoutEntry(k)
           /\ storedHistory' = Blob(downloadHistory')
           /\ downloadQueue' = downloadQueue
           /\ \E t \in retries' :
                /\ t \notin retries /\ retries' = retries \cup {t}
                /\ t.pc = "removing" /\ ~t.all
                /\ C11_NewJob(t.item, downloadHistory[k])

C11_AddStep(t) ==
    (RetryAdd(t) /\ ~LiveFor(t.item.videoId))
        => /\ downloadQueue' = Append(downloadQueue, t.item)
           /\ storedQueue' = Blob(downloadQueue')
           /\ downloadHistory' = downloadHistory
           /\ \E u \in retries' : u.item = t.item /\ u.pc = "adding"

C11_DoneStep(t) ==
    (RetryDone(t) /\ ~t.all) => (reply'.success /\ t \notin retries')

C11_RetryCreatesJob ==
    [][/\ \A k \in HistIdx : C11_CallStep(k)
       /\ \A t \in retries : C11_AddStep(t) /\ C11_DoneStep(t)]_vars

\* C11 witness: the retry of the entry with retryCount 1 has put a Pending Job
\* with retryCount 2 and the entry's rendition at the end of the list, and
\* the entry is no longer in History.
C11_Witness ==
    /\ Len(downloadQueue) > 0
    /\ LET job == downloadQueue[Len(downloadQueue)] IN
        /\ job.status = "pending" /\ job.retryCount = 2
        /\ job.videoId = "v1" /\ job.quality = "1080p"
        /\ \E t \in retries : t.pc = "adding" /\ ~t.all /\ t.item = job
    /\ \A k \in HistIdx : downloadHistory[k].id # MaxIds + 2

\* C12: retry(id) for an id whose entry is Completed, or for an id History
\* does not hold, answers with an error and changes neither History nor the
\* Job list (nor what is persisted, nor the calls in flight).
C12_NoFailedEntry(id) ==
    \/ \A k \in HistIdx : downloadHistory[k].id # id
    \/ \E k \in HistIdx : /\ FirstWithId(k) /\ downloadHistory[k].id = id
                           /\ downloadHistory[k].status = "completed"

C12_RetryRejected ==
    [][\A id \in HistoryIds :
        (RetryFromHistory(id) /\ C12_NoFailedEntry(id))
            => /\ ~reply'.success
               /\ downloadHistory' = downloadHistory
               /\ downloadQueue' = downloadQueue
               /\ storedHistory' = storedHistory
               /\ storedQueue' = storedQueue
               /\ retries' = retries /\ nextId' = nextId]_vars

\* C12 witness: a command has just been rejected while the list is empty, no
\* call is in flight and History is as loaded, a Completed entry included:
\* the rejected command is a retry of the Completed entry or of an unknown id.
C12_Witness ==
    /\ ~reply.success
    /\ startup.pc = "done"
    /\ downloadQueue = <<>> /\ retries = {} /\ adds = 0
    /\ downloadHistory = RetryHistory
    /\ \E k \in HistIdx : downloadHistory[k].status = "completed"

\* C13: a command that answers with a failure leaves the state as it was
\* before the command; in particular a retry(id) of a Failed entry that fails
\* because a Job of the resource is Pending or Active leaves the entry in
\* History and the Job list unchanged.
C13_EntryKept(t) ==
    \E k \in 1..Len(downloadHistory') :
        /\ downloadHistory'[k].id = t.id
        /\ downloadHistory'[k].status = "failed"
        /\ downloadHistory'[k].videoId = t.item.videoId

C13_FailedRetryKeepsEntry ==
    [][\A t \in retries :
        (RetryAdd(t) /\ LiveFor(t.item.videoId))
            => /\ ~t.all => ~reply'.success
               /\ downloadQueue' = downloadQueue
               /\ C13_EntryKept(t)]_vars

\* C14: retryAll() ends and reports total = the number of Failed entries in
\* History at the call and retried = the number of those whose retry was
\* admitted to the Job list, retried <= total, duplicates included.
C14_FailedCount == Cardinality({k \in HistIdx : downloadHistory[k].status = "failed"})
C14_NewCount == IF retryAll'.pc = "running" THEN retryAll'.retried ELSE reply'.retried

\* the call: the Failed entries are counted, nothing is retried yet
C14_CallStep ==
    RetryAllFailed =>
        IF retryAll'.pc = "running"
        THEN /\ Len(retryAll'.items) = C14_FailedCount
             /\ retryAll'.retried = 0 /\ retryAll'.i >= 1
        ELSE /\ reply'.success
             /\ reply'.total = C14_FailedCount
             /\ reply'.retried = 0

\* the loop: a rejected retry admits no Job and is not counted, an admitted
\* one adds one Job and is counted once; the loop moves on
C14_LoopStep(t) ==
    t.all =>
        /\ RetryAdd(t) =>
                IF LiveFor(t.item.videoId)
                THEN downloadQueue' = downloadQueue /\ C14_NewCount = retryAll.retried
                ELSE /\ downloadQueue' = Append(downloadQueue, t.item)
                     /\ retryAll' = retryAll
        /\ RetryDone(t) =>
                /\ Len(downloadQueue') = Len(downloadQueue)
                /\ C14_NewCount = retryAll.retried + 1
        /\ ((RetryAdd(t) \/ RetryDone(t)) /\ retryAll'.pc = "running" /\ retryAll' # retryAll)
                => (retryAll'.i > retryAll.i /\ retryAll'.i <= Len(retryAll.items)
                    /\ retryAll'.items = retryAll.items)

\* the return: total is the count taken at the call
C14_ReturnStep(t) ==
    (t.all /\ (RetryAdd(t) \/ RetryDone(t)) /\ retryAll'.pc = "idle")
        => /\ reply'.success
           /\ reply'.total = Len(retryAll.items)
           /\ reply'.retried <= reply'.total

C14_RetryAllReport ==
    [][/\ C14_CallStep
       /\ \A t \in retries : C14_LoopStep(t) /\ C14_ReturnStep(t)]_vars

\* the same for calls made while History holds a Failed entry
C14_ReportWhenSomeFailed ==
    [][/\ C14_FailedCount > 0 => C14_CallStep
       /\ \A t \in retries : C14_LoopStep(t) /\ C14_ReturnStep(t)]_vars

\* ------------------------------------------------------- remove, clear
\* C15: remove(id) fails and leaves the Job list as it is when the Job with
\* that id is Active or no Job has that id; otherwise it takes exactly that
\* Job out and keeps the others in their order.  No command removes or
\* cancels an Active Job: only the end of its own download changes it.
C15_RemoveStep(id) ==
    RemoveFromQueue(id) =>
        IF \E i \in QueueIdx : downloadQueue[i].id = id /\ downloadQueue[i].status # "downloading"
        THEN /\ reply'.success
             /\ Len(downloadQueue') = Len(downloadQueue) - 1
             /\ \A j \in 1..Len(downloadQueue') : downloadQueue'[j].id # id
             /\ \E i \in QueueIdx :
                    /\ downloadQueue[i].id = id
                    /\ \A j \in 1..Len(downloadQueue') :
                            downloadQueue'[j] = downloadQueue[IF j < i THEN j ELSE j + 1]
             /\ storedQueue' = Blob(downloadQueue')
        ELSE /\ ~reply'.success
             /\ downloadQueue' = downloadQueue
             /\ storedQueue' = storedQueue

C15_ActiveKept ==
    \A i \in ActiveJobs :
        \E j \in 1..Len(downloadQueue') :
            /\ downloadQueue'[j] = downloadQueue[i]
            /\ j <= i

C15_CommandStep ==
    /\ \A p \in passes, o \in Outcomes : ~PassResult(p, o)
    /\ ~InitQueueLoad
    /\ ~Restart

C15_RemoveRefusesActive ==
    [][/\ \A id \in Ids : C15_RemoveStep(id)
       /\ C15_CommandStep => C15_ActiveKept]_vars

\* C15 witness: in the first process run Job 1 was removed before it ran
\* (History was never written), Job 2 is Active and alone in the list, and a
\* command has just been refused.
C15_Witness ==
    /\ restarts = 0 /\ ~storedHistory.present
    /\ nextId = 3
    /\ Len(downloadQueue) = 1
    /\ downloadQueue[1].id = 2 /\ downloadQueue[1].status = "downloading"
    /\ ~reply.success

\* C16: clearFinished() takes every Completed and every Failed Job out of the
\* Job list in one step and leaves every Pending and Active Job in the list,
\* with its status and in the same relative order, also while a pass is in
\* flight; the pass and the guard are not touched.
C16_LiveBefore(i) == Cardinality({m \in 1..i : Live(downloadQueue[m])})

C16_ClearStep ==
    ClearCompleted =>
        /\ reply'.success
        /\ Len(downloadQueue') = C16_LiveBefore(Len(downloadQueue))
        /\ \A i \in QueueIdx :
                Live(downloadQueue[i]) => downloadQueue'[C16_LiveBefore(i)] = downloadQueue[i]
        /\ storedQueue' = Blob(downloadQueue')
        /\ isProcessingQueue' = isProcessingQueue
        /\ {[pc |-> p.pc, nextItem |-> p.nextItem] : p \in passes'}
              = {[pc |-> p.pc, nextItem |-> p.nextItem] : p \in passes}

C16_ClearFinished == [][C16_ClearStep]_vars

\* C16 witness: the list was cleared while a pass was in flight: the pass has
\* recorded its outcome and still holds the guard, its finished Job is out of
\* the list, and a Pending Job is still in the list.
C16_Witness ==
    /\ isProcessingQueue
    /\ \E p \in passes :
        /\ p.pc \in {"recorded", "saving"}
        /\ \A i \in QueueIdx : downloadQueue[i].id # p.nextItem.id
    /\ \E i \in QueueIdx : downloadQueue[i].status = "pending"
    /\ \A i \in QueueIdx : Live(downloadQueue[i])

\* ------------------------------------------------------- state machine
\* C17: within one process run the status of a Job changes only Pending ->
\* Active and Active -> Completed or Failed; a Completed or Failed Job keeps
\* its status; a retry appends a Job with a new id and changes no Job of the
\* list.
C17_Allowed(old, new) ==
    \/ new = old
    \/ old = "pending" /\ new = "downloading"
    \/ old = "downloading" /\ new \in {"completed", "failed"}

C17_ListStep ==
    \A i \in QueueIdx, j \in 1..Len(downloadQueue') :
        downloadQueue'[j].id = downloadQueue[i].id
            => C17_Allowed(downloadQueue[i].status, downloadQueue'[j].status)

C17_PassStep ==
    \A p \in passes, q \in passes' :
        q.nextItem.id = p.nextItem.id
            => C17_Allowed(p.nextItem.status, q.nextItem.status)

C17_ReplayStep ==
    \A t \in retries :
        (RetryAdd(t) /\ downloadQueue' # downloadQueue)
            => /\ SubSeq(downloadQueue', 1, Len(downloadQueue)) = downloadQueue
               /\ Len(downloadQueue') = Len(downloadQueue) + 1
               /\ \A i \in QueueIdx :
                    downloadQueue[i].id # downloadQueue'[Len(downloadQueue')].id

C17_StatusMachine == [][C17_ListStep /\ C17_PassStep /\ C17_ReplayStep]_vars

\* C17 witness: a Job went Pending -> Active -> Failed and is still listed as
\* Failed with its error, and the retry of its History entry stands behind it
\* as a new Pending Job.
C17_Witness ==
    /\ Len(downloadQueue) = 2
    /\ downloadQueue[1].status = "failed" /\ downloadQueue[1].error = "network down"
    /\ downloadQueue[2].status = "pending" /\ downloadQueue[2].retryCount = 1
    /\ downloadQueue[2].videoId = downloadQueue[1].videoId
    /\ downloadQueue[2].id # downloadQueue[1].id

\* C18: a Failed Job is never retried automatically.  Without a restart the
\* download of a Job is started at most once: a pass starts only for a Job
\* that is Pending, never for one whose outcome is in History, and no Job is
\* recorded twice.  A Job that is Pending or Active enters the list only by
\* an enqueue, by a retry (retry, retryAll) or by the startup load, and a
\* Failed Job of the list stays Failed.
C18_HistoryIds == {downloadHistory[k].id : k \in HistIdx}

C18_OnceState ==
    /\ \A k, m \in HistIdx : k # m => downloadHistory[k].id # downloadHistory[m].id
    /\ \A p \in passes : p.pc \in {"marked", "fetching"} => p.nextItem.id \notin C18_HistoryIds

C18_PassStartStep ==
    \A q \in passes' :
        (q.pc = "marked" /\ \A p \in passes : p.nextItem.id # q.nextItem.id)
            => \E i \in QueueIdx : /\ downloadQueue[i].id = q.nextItem.id
                                    /\ downloadQueue[i].status = "pending"

C18_NewJobStep ==
    (\E j \in 1..Len(downloadQueue') :
        /\ Live(downloadQueue'[j])
        /\ \A i \in QueueIdx : downloadQueue[i].id # downloadQueue'[j].id)
    => \/ \E vid \in Videos : AddToQueue(vid)
       \/ \E t \in retries : RetryAdd(t)
       \/ InitQueueLoad

C18_FailedStaysStep ==
    \A i \in QueueIdx, j \in 1..Len(downloadQueue') :
        (downloadQueue'[j].id = downloadQueue[i].id /\ downloadQueue[i].status = "failed")
            => downloadQueue'[j].status = "failed"

C18_NoAutomaticRetry ==
    [][/\ C18_PassStartStep
       /\ C18_NewJobStep
       /\ C18_FailedStaysStep
       /\ restarts' = 0 => C18_OnceState']_vars

\* C18 witness: in the first process run a Job has failed, its pass has ended
\* and the re-trigger timer has fired: the Job is still Failed, nothing runs.
C18_Witness ==
    /\ restarts = 0
    /\ passes = {} /\ ~isProcessingQueue /\ timers = 0 /\ adds = 0 /\ retries = {}
    /\ Len(downloadQueue) = 1 /\ downloadQueue[1].status = "failed"
    /\ Len(downloadHistory) = 1 /\ downloadHistory[1].id = downloadQueue[1].id
    /\ downloadHistory[1].status = "failed"

\* ------------------------------------------------------- failure paths
\* C19: a pass never lets an exception escape.  When the download throws or
\* returns a failure the Job becomes Failed and the pass goes on: it records
\* the outcome, saves, clears the guard and arms the re-trigger, the guard is
\* never left set without a pass, and a Job that is Pending when a pass has
\* failed is started by the loop.
C19_FailStep(p, o) ==
    (PassResult(p, o) /\ o.kind \in {"fail", "throw"})
        => /\ \E q \in passes' :
                /\ q.pc = "recorded" /\ q.nextItem.id = p.nextItem.id
                /\ q.nextItem.status = "failed"
           /\ p.attached =>
                \E i \in QueueIdx : /\ downloadQueue'[i].id = p.nextItem.id
                                    /\ downloadQueue'[i].status = "failed"
           /\ downloadHistory'[1].id = p.nextItem.id
           /\ downloadHistory'[1].status = "failed"

C19_EndStep(p) ==
    /\ PassSave(p) => \E q \in passes' : q.pc = "saving" /\ q.nextItem = p.nextItem
    /\ PassEnd(p) => (~isProcessingQueue' /\ passes' = passes \ {p} /\ timers' > 0)

C19_NextStep ==
    (TimerFire /\ ~isProcessingQueue /\ \E i \in QueueIdx : downloadQueue[i].status = "pending")
        => (isProcessingQueue' /\ \E i \in QueueIdx : C4_MadeActive(i))

C19_GuardState == isProcessingQueue <=> passes # {}

C19_FailedPassWith(id) ==
    /\ \E p \in passes : p.pc = "recorded" /\ p.nextItem.status = "failed"
    /\ \E i \in QueueIdx : downloadQueue[i].id = id /\ downloadQueue[i].status = "pending"

C19_Started(id) ==
    \E i \in QueueIdx : downloadQueue[i].id = id /\ downloadQueue[i].status = "downloading"

C19_PassSurvivesFailure ==
    /\ [][/\ \A p \in passes, o \in Outcomes : C19_FailStep(p, o)
          /\ \A p \in passes : C19_EndStep(p)
          /\ C19_NextStep
          /\ C19_GuardState']_vars
    /\ \A id \in Ids : C19_FailedPassWith(id) ~> C19_Started(id)

\* C19 witness: the download of Job 1 threw without a message, Job 1 is
\* Failed, and the loop has gone on to Job 2, which is Active.
C19_Witness ==
    /\ Len(downloadQueue) = 2
    /\ downloadQueue[1].status = "failed" /\ downloadQueue[1].error = "Unknown error"
    /\ downloadQueue[2].status = "downloading"
    /\ isProcessingQueue
    /\ \E p \in passes : p.pc = "fetching" /\ p.nextItem.id = downloadQueue[2].id

\* C20: when a pass ends in failure, the error on the Job and the error on
\* its History entry are both the message of the failure path that fired:
\* the message of the thrown error or the error field of the failure result
\* (a thrown "network down" gives a failed entry with error "network down");
\* a path that carries no message gives its fixed text on both.
C20_Message(o) ==
    CASE o.error # NoError -> o.error
      [] o.error = NoError /\ o.kind = "fail" -> "Download failed"
      [] o.error = NoError /\ o.kind = "throw" -> "Unknown error"

C20_FailStep(p, o) ==
    (PassResult(p, o) /\ o.kind # "ok")
        => /\ downloadHistory'[1].id = p.nextItem.id
           /\ downloadHistory'[1].status = "failed"
           /\ downloadHistory'[1].error = C20_Message(o)
           /\ \E q \in passes' :
                /\ q.nextItem.id = p.nextItem.id
                /\ q.nextItem.status = "failed"
                /\ q.nextItem.error = C20_Message(o)
           /\ p.attached =>
                \E i \in QueueIdx :
                    /\ downloadQueue'[i].id = p.nextItem.id
                    /\ downloadQueue'[i].error = C20_Message(o)
           /\ storedHistory'.value[1].error = C20_Message(o)

C20_ErrorCaptured ==
    [][\A p \in passes, o \in Outcomes : C20_FailStep(p, o)]_vars

\* C20 witness: Job 1 failed with "network down" and Job 2 with a failure
\* result that had no error field; each Job and its History entry carry the
\* same text.
C20_Witness ==
    /\ Len(downloadQueue) = 2 /\ Len(downloadHistory) = 2
    /\ downloadQueue[1].status = "failed" /\ downloadQueue[1].error = "network down"
    /\ downloadQueue[2].status = "failed" /\ downloadQueue[2].error = "Download failed"
    /\ downloadHistory[2].id = downloadQueue[1].id
    /\ downloadHistory[2].status = "failed" /\ downloadHistory[2].error = "network down"
    /\ downloadHistory[1].id = downloadQueue[2].id
    /\ downloadHistory[1].status = "failed" /\ downloadHistory[1].error = "Download failed"

\* ------------------------------------------------------------ liveness
\* C21: when every download ends, every Job that is Pending (and is not
\* removed) becomes Active and every Active Job becomes Completed or Failed.
\* A trigger that arrives while a pass is busy is dropped without effect, and
\* the busy pass arms the re-trigger when it ends, so the Job whose trigger
\* was dropped is started all the same.
C21_Pending(id) ==
    \E i \in QueueIdx : downloadQueue[i].id = id /\ downloadQueue[i].status = "pending"
C21_Active(id) ==
    \E i \in QueueIdx : downloadQueue[i].id = id /\ downloadQueue[i].status = "downloading"
C21_Terminal(id) ==
    \E i \in QueueIdx : downloadQueue[i].id = id /\ Finished(downloadQueue[i])

C21_DroppedStep ==
    (AddToQueueDone /\ isProcessingQueue)
        => /\ downloadQueue' = downloadQueue /\ passes' = passes
           /\ isProcessingQueue' /\ timers' = timers

C21_RetriggerStep ==
    \A p \in passes :
        (PassEnd(p) /\ \E id \in Ids : C21_Pending(id)) => timers' > 0

C21_Liveness ==
    /\ [][C21_DroppedStep /\ C21_RetriggerStep]_vars
    /\ \A id \in Ids : C21_Pending(id) ~> C21_Active(id)
    /\ \A id \in Ids : C21_Active(id) ~> C21_Terminal(id)

\* C21 witness: the trigger of Job 2's enqueue was dropped while the pass of
\* Job 1 was busy: that pass is about to end, no trigger is left, and Job 2 is
\* Pending.
C21_Witness ==
    /\ adds = 0 /\ timers = 0
    /\ \E p \in passes : p.pc = "saving" /\ p.nextItem.id = 1
    /\ C21_Terminal(1)
    /\ C21_Pending(2)

\* ---------------------------------------------------------------- cache
Outstanding(vid) == {p \in prefetches : p.videoId = vid}
Expired(e, t) == e.state = "ready" /\ t - e.timestamp >= CACHE_TTL
Fresh(e, t) == e.state = "ready" /\ t - e.timestamp < CACHE_TTL

\* C22: a lookup (getCachedInfo) returns the entry's data exactly when the
\* entry is Ready and now - timestamp < TTL; for a Ready entry with
\* now - timestamp >= TTL it returns None and that entry is removed; a lookup
\* answers in the step that calls it and leaves a Fetching entry as it is.
C22_LookupStep ==
    found'.called =>
        LET vid == found'.videoId
            e == videoInfoCache[vid] IN
        /\ found'.data = IF e.state = "ready" /\ now' - e.timestamp < CACHE_TTL
                         THEN e.data ELSE NoData
        /\ (found'.data # NoData) = Fresh(e, now')
        /\ Fresh(e, now') => videoInfoCache'[vid] = e
        /\ Expired(e, now') => videoInfoCache'[vid].state # "ready"
        /\ (Expired(e, now') /\ found'.answered) => videoInfoCache'[vid] = Absent
        /\ e.state = "fetching" => videoInfoCache'[vid] = e

C22_CacheTTL == [][C22_LookupStep]_vars

\* C22 witness: a lookup is answered with the data at the last millisecond of
\* the entry's lifetime.
C22_Witness ==
    /\ found.answered /\ found.data # NoData
    /\ now - videoInfoCache[found.videoId].timestamp = CACHE_TTL - 1

\* C23: for each resourceId at most one request to the server is outstanding
\* at any time (and one is outstanding exactly while the entry is Fetching);
\* a request is sent only when none is outstanding, and any trigger that
\* arrives while one is outstanding sends none: concurrent triggers for an
\* uncached resource result in exactly one request.
C23_OneOutstanding ==
    \A vid \in Videos :
        /\ Cardinality(Outstanding(vid)) <= 1
        /\ (videoInfoCache[vid].state = "fetching") = (Outstanding(vid) # {})

C23_InvokeStep ==
    \A vid \in Videos :
        fetched'[vid] # fetched[vid]
            => /\ Outstanding(vid) = {}
               /\ fetched'[vid] = fetched[vid] + 1
               /\ \E p \in prefetches' :
                     /\ p.videoId = vid /\ p.n = fetched'[vid]
                     /\ prefetches' = prefetches \cup {p}

C23_ConcurrentStep ==
    \A vid \in Videos :
        ((PrefetchInfo(vid) \/ TabUpdated(vid)) /\ Outstanding(vid) # {})
            => UNCHANGED <<videoInfoCache, prefetches, fetched>>

C23_SingleFlight ==
    /\ []C23_OneOutstanding
    /\ [][C23_InvokeStep /\ C23_ConcurrentStep]_vars

\* C23 witness: a tab listener has triggered a prefetch for a resource whose
\* one and only request was sent earlier and is still outstanding.
C23_Witness ==
    \E vid \in Videos :
        /\ found = Got(vid, NoData)
        /\ Outstanding(vid) # {}
        /\ fetched[vid] = 1
        /\ videoInfoCache[vid].timestamp < now

\* C24: prefetch(resourceId) changes nothing (entry and its timestamp as they
\* were, no request sent) when the entry is Fetching or is Ready and
\* un-expired; when the entry is absent or Ready but expired it sets the entry
\* to Fetching, stamped now, and sends one request.
C24_PrefetchStep ==
    \A vid \in Videos :
        PrefetchInfo(vid) =>
            LET e == videoInfoCache[vid] IN
            /\ (e.state = "fetching" \/ Fresh(e, now))
                   => UNCHANGED <<videoInfoCache, prefetches, fetched>>
            /\ (e.state = "absent" \/ Expired(e, now))
                   => /\ videoInfoCache' = [videoInfoCache EXCEPT ![vid] = FetchingEntry(now)]
                      /\ fetched' = [fetched EXCEPT ![vid] = fetched[vid] + 1]
                      /\ Cardinality(prefetches') = Cardinality(prefetches) + 1
                      /\ Outstanding(vid)' = {[videoId |-> vid, pc |-> "fetch", n |-> fetched'[vid]]}

C24_PrefetchNoOp == [][C24_PrefetchStep]_vars

\* C24 witness: the resource's second request has just been sent by a
\* PREFETCH_INFO at the instant its first entry's age reached the TTL.
C24_Witness ==
    \E vid \in Videos :
        /\ now = CACHE_TTL
        /\ videoInfoCache[vid] = FetchingEntry(now)
        /\ fetched[vid] = 2
        /\ found = Nothing
        /\ Outstanding(vid) = {[videoId |-> vid, pc |-> "fetch", n |-> 2]}

\* C25: when the request of a prefetch ends in a failure (fetch() or
\* response.json() throws, the response is not ok, the payload reports no
\* success) the entry of that resource is absent afterwards, the call is over
\* and nothing else changes (no error reaches another part of the program);
\* and a prefetch for a resource whose entry is absent sends a request again.
C25_Failure(p) ==
    \/ \E r \in FetchResults \ {"ok"} : FetchReturn(p, r)
    \/ \E r \in JsonResults \ {"success"} : JsonReturn(p, r)

C25_FailureStep ==
    \A p \in prefetches :
        C25_Failure(p)
            => /\ videoInfoCache' = [videoInfoCache EXCEPT ![p.videoId] = Absent]
               /\ prefetches' = prefetches \ {p}
               /\ UNCHANGED <<now, lookups, fetched, waited, queueVars>>

C25_AgainStep ==
    \A vid \in Videos :
        ((PrefetchInfo(vid) \/ TabUpdated(vid)) /\ videoInfoCache[vid] = Absent)
            => /\ fetched'[vid] = fetched[vid] + 1
               /\ videoInfoCache'[vid] = FetchingEntry(now)

C25_FailureDeletes == [][C25_FailureStep /\ C25_AgainStep]_vars

\* C25 witness: the second request for a resource is outstanding at the
\* instant of its first one, which can only have failed (an answer cached at
\* this instant would be un-expired and the trigger skipped).
C25_Witness ==
    \E vid \in Videos :
        /\ now = 0
        /\ fetched[vid] = 2
        /\ videoInfoCache[vid] = FetchingEntry(0)
        /\ Outstanding(vid) # {}

\* C26: a lookupAwait (getCachedInfoAsync) that waits because the entry is
\* Fetching is answered, at its first poll after the request succeeded, with
\* the data that request wrote; it is answered None at a poll that finds the
\* entry gone; and no step of a lookupAwait sends a request.
C26_LookupSteps ==
    \/ \E vid \in Videos : GetCachedInfo(vid)
    \/ \E w \in lookups : Poll(w)

C26_WritesStep ==
    \A p \in prefetches :
        JsonReturn(p, "success")
            => videoInfoCache'[p.videoId] = ReadyEntry(now, p.n)

C26_PollStep ==
    \A w \in lookups :
        Poll(w) =>
            LET e == videoInfoCache[w.videoId] IN
            /\ e.state = "ready"
                   => /\ found' = Found(w.videoId, e.data)
                      /\ lookups' = lookups \ {w}
                      /\ videoInfoCache' = videoInfoCache
            /\ e.state = "absent"
                   => /\ found' = Found(w.videoId, NoData)
                      /\ lookups' = lookups \ {w}

C26_NoRequestStep ==
    C26_LookupSteps => UNCHANGED <<prefetches, fetched>>

C26_Waiting(vid, d) ==
    /\ \E w \in lookups : w.videoId = vid
    /\ videoInfoCache[vid].state = "ready" /\ videoInfoCache[vid].data = d

C26_AwaitCoalesces ==
    /\ [][C26_WritesStep /\ C26_PollStep /\ C26_NoRequestStep]_vars
    /\ \A vid \in Awaited, d \in 1..MaxFetches :
          C26_Waiting(vid, d) ~> (found = Found(vid, d))

\* C26 witness: a lookupAwait that waited through more than one poll has been
\* answered with the data of the resource's only request, written after the
\* lookup began.
C26_Witness ==
    \E vid \in Awaited :
        /\ found.answered /\ found.videoId = vid /\ found.data = 1
        /\ waited = 1 /\ lookups = {} /\ fetched[vid] = 1
        /\ videoInfoCache[vid] = ReadyEntry(now - POLL_MS, 1)
        /\ videoInfoCache[vid].timestamp > POLL_MS

\* C27: lookupAwait always terminates: a waiting lookup has made fewer than 50
\* polls, its next poll is due 200 ms after the previous one, and the 50th
\* poll answers (None if the entry is still Fetching) 10000 ms after the call;
\* every waiting lookup is eventually answered, even when the request it waits
\* for never ends.
C27_Bounded ==
    \A w \in lookups :
        /\ w.i \in 0..(MAX_POLLS - 1)
        /\ w.due = w.since + (w.i + 1) * POLL_MS
        /\ now <= w.due

C27_GiveUpStep ==
    \A w \in lookups :
        (Poll(w) /\ w.i = MAX_POLLS - 1)
            => /\ found'.answered /\ found'.videoId = w.videoId
               /\ lookups' = lookups \ {w}
               /\ now' - w.since = MAX_POLLS * POLL_MS
               /\ videoInfoCache[w.videoId].state = "fetching" => found'.data = NoData

C27_AwaitTerminates ==
    /\ []C27_Bounded
    /\ [][C27_GiveUpStep]_vars
    /\ (lookups # {}) ~> (lookups = {})

\* C27 witness: a lookupAwait called at time 0 has been answered None at
\* 10000 ms while the resource's one request is still outstanding.
C27_Witness ==
    \E vid \in Awaited :
        /\ found = Found(vid, NoData)
        /\ lookups = {} /\ waited = 1
        /\ videoInfoCache[vid] = FetchingEntry(0)
        /\ fetched[vid] = 1 /\ Outstanding(vid) # {}
        /\ now = MAX_POLLS * POLL_MS

\* ---------------------------------------------------------- notification
\* C28: notification is best-effort.  The two steps of a pass that call
\* notifyPopup() continue in the same way whether the popup listens (the
\* message is delivered) or not (sendMessage() is rejected): the pass goes on
\* to its download, respectively clears the guard and arms the timer, and the
\* Job list, the History and the Store are untouched; no other step sends a
\* notification.
C28_StartStep ==
    \A p \in passes :
        PassFetch(p)
            => /\ passes' = (passes \ {p}) \cup {[p EXCEPT !.pc = "fetching"]}
               /\ UNCHANGED <<downloadQueue, isProcessingQueue, downloadHistory,
                              storedQueue, storedHistory, timers>>
               /\ popup'.last = IF popup.open THEN "delivered" ELSE "rejected"

C28_EndStep ==
    \A p \in passes :
        PassEnd(p)
            => /\ passes' = passes \ {p}
               /\ ~isProcessingQueue'
               /\ timers' = IF timers < MaxTimers THEN timers + 1 ELSE timers
               /\ UNCHANGED <<downloadQueue, downloadHistory, storedQueue, storedHistory>>
               /\ popup'.last = IF popup.open THEN "delivered" ELSE "rejected"

C28_OtherStep ==
    (\A p \in passes : ~PassFetch(p) /\ ~PassEnd(p)) => popup'.last = popup.last

C28_BestEffort == [][C28_StartStep /\ C28_EndStep /\ C28_OtherStep]_vars

\* C28 witness: the first notification of the process run, sent by a pass
\* after it marked its Job, was rejected because no popup listened, and the
\* pass is at its download.
C28_Witness ==
    /\ ~popup.open /\ popup.last = "rejected"
    /\ downloadHistory = <<>>
    /\ \E p \in passes : p.pc = "fetching"
    /\ isProcessingQueue

\* ----------------------------------------------------------- persistence
\* what a read of a storage key yields: the stored list, or nothing stored
Persisted(blob) == IF blob.present THEN blob.value ELSE <<>>

C29_Idle ==
    /\ startup.pc = "done"
    /\ passes = {} /\ adds = 0 /\ retries = {} /\ retryAll.pc = "idle"

\* the part that holds: with nothing in flight the stored queue is the Job
\* list, and when an enqueue returns every Job of the list is in the Store
C29_QueuePersisted == C29_Idle => Persisted(storedQueue) = downloadQueue
C29_EnqueuePersisted ==
    [][AddToQueueDone =>
          \A i \in QueueIdx :
              \E j \in 1..Len(Persisted(storedQueue)) :
                  Persisted(storedQueue)[j].id = downloadQueue[i].id]_vars

\* C29: whenever the startup loads are over and no command and no pass is
\* mid-flight, the persisted queue is the in-memory Job list and the persisted
\* history is the in-memory History.
C29_PersistedWhenIdle ==
    C29_Idle => /\ Persisted(storedQueue) = downloadQueue
                /\ Persisted(storedHistory) = downloadHistory

\* ------------------------------------------------------------------ error
\* C30: in every reachable state a Job of the list, and an entry of History,
\* carries an error message only if its status is failed (so a completed Job
\* has none); and a Job that a command puts into the list, an enqueue or a
\* retry of a failed entry, starts pending and without an error.
C30_ErrorOnlyIfFailed ==
    /\ \A i \in QueueIdx :
          downloadQueue[i].error # NoError => downloadQueue[i].status = "failed"
    /\ \A i \in HistIdx :
          downloadHistory[i].error # NoError => downloadHistory[i].status = "failed"

C30_NewJobStep ==
    startup' = startup =>
        \A j \in 1..Len(downloadQueue') :
            (\A i \in QueueIdx : downloadQueue[i].id # downloadQueue'[j].id)
                => /\ downloadQueue'[j].status = "pending"
                   /\ downloadQueue'[j].error = NoError

C30_ErrorIffFailed ==
    /\ []C30_ErrorOnlyIfFailed
    /\ [][C30_NewJobStep]_vars

\* C30 witness: the Job made by the retry of a failed entry (which carried
\* "network down") has completed and carries no error.
C30_Witness ==
    \E i \in QueueIdx :
        /\ downloadQueue[i].retryCount >= 1
        /\ downloadQueue[i].status = "completed"
        /\ downloadQueue[i].error = NoError
        /\ \E k \in HistIdx : /\ downloadHistory[k].id = downloadQueue[i].id
                              /\ downloadHistory[k].error = NoError

\* ------------------------------------------------------------ behaviour
\* C31: a trigger of the execution loop (START_QUEUE, the 500 ms timer, the
\* end of an enqueue, the end of the startup load) that arrives while a pass
\* is running changes no Job, not the guard, not the Store, not History, and
\* starts or queues no pass: the calls in flight are as before and no timer
\* is armed.
C31_Trigger == StartQueue \/ TimerFire \/ AddToQueueDone \/ InitQueueStart

C31_BusyStep ==
    (C31_Trigger /\ passes # {})
        => /\ UNCHANGED <<downloadQueue, isProcessingQueue, downloadHistory,
                          storedQueue, storedHistory, passes>>
           /\ isProcessingQueue
           /\ timers' <= timers

C31_GuardDropsTrigger == [][C31_BusyStep]_vars

\* C31 witness: in the first process run Job 2 was enqueued after Job 1; the
\* trigger at the end of its enqueue came while the pass of Job 1 was at its
\* download and was dropped: Job 2 is Pending and nothing is in flight for it.
C31_Witness ==
    /\ restarts = 0 /\ startup.pc = "done" /\ adds = 0 /\ timers = 0
    /\ Len(downloadQueue) = 2
    /\ downloadQueue[1].status = "downloading" /\ downloadQueue[2].status = "pending"
    /\ downloadQueue[2].retryCount = NoCount
    /\ passes = {[pc |-> "fetching", nextItem |-> downloadQueue[1], attached |-> TRUE]}

\* the Job of pass p as the Store holds it
C32_Stored(p) ==
    {Persisted(storedQueue)[j] :
        j \in {k \in 1..Len(Persisted(storedQueue)) :
                  Persisted(storedQueue)[k].id = p.nextItem.id}}

\* the parts of the order that hold: the Job is marked downloading, in the
\* list and in the Store, when handleDownload is called, and the guard is set
\* as long as a pass has not cleared it
C32_MarkedBeforeFetch ==
    [][\A p \in passes :
          (PassFetch(p) /\ p.attached)
              => /\ p.nextItem.status = "downloading"
                 /\ \E i \in QueueIdx : downloadQueue[i] = p.nextItem
                 /\ C32_Stored(p) = {p.nextItem}]_vars
C32_GuardCoversOutcome ==
    \A p \in passes : p.pc \in {"fetching", "recorded", "saving"} => isProcessingQueue

\* C32: after the terminal result a pass persists the queue before it appends
\* the terminal Job to History: in the step that puts the outcome into
\* History the Store already holds the Job with its terminal status.
C32_PersistBeforeHistory ==
    [][\A p \in passes, o \in Outcomes :
          (PassResult(p, o) /\ p.attached)
              => \A q \in C32_Stored(p) : q.status = downloadHistory'[1].status]_vars

\* ------------------------------------------------- notification content
\* the Active Jobs of a Job list
C33_Active(queue) == {i \in 1..Len(queue) : queue[i].status = "downloading"}

\* the notification a listening popup holds is the Job list, the flag and
\* the History of the background script as they are after the sending step
C33_Current ==
    popup'.received = [sent |-> TRUE, queue |-> downloadQueue',
                       isProcessing |-> isProcessingQueue',
                       history |-> downloadHistory']

\* helper: every notification carries the full Job list, the flag and the
\* full History as they are when it is sent; the one sent at the start of a
\* pass has the flag set, the one sent at the end of a pass has the flag
\* clear and no Active Job
C33_CarriesCurrentState ==
    [][\A p \in passes :
          /\ (PassFetch(p) /\ popup.open)
                => C33_Current /\ popup'.received.isProcessing
          /\ (PassEnd(p) /\ popup.open)
                => /\ C33_Current
                   /\ ~popup'.received.isProcessing
                   /\ C33_Active(popup'.received.queue) = {}]_vars

\* C33: the Queue-changed notification sent at the start of a pass (after
\* the Job was marked and the queue saved) carries a Job list with exactly
\* one Active Job.
C33_StartHasOneActive ==
    [][\A p \in passes :
          (PassFetch(p) /\ popup.open)
              => Cardinality(C33_Active(popup'.received.queue)) = 1]_vars

\* ---------------------------------------------------- guard and Active
\* getQueueState(): the answer to GET_QUEUE, read in one synchronous step
getQueueState == [queue |-> downloadQueue, isProcessing |-> isProcessingQueue]

\* C34: in every reachable state a Job of the Job list is Active only while
\* the re-entrancy guard is set, so getQueueState() never reports an Active
\* Job together with isProcessing false.
C34_ActiveUnderGuard ==
    LET state == getQueueState IN
    (\E i \in 1..Len(state.queue) : state.queue[i].status = "downloading")
        => state.isProcessing

\* C34 witness: after a restart the stored list, whose Job was Active when
\* the process ended, has been loaded and reset, and the pass started from
\* initializeQueue() has marked the Job Active again under the guard.
C34_Witness ==
    /\ restarts = 1 /\ startup.pc = "done"
    /\ Len(downloadQueue) = 1 /\ downloadQueue[1].status = "downloading"
    /\ isProcessingQueue
    /\ downloadHistory = <<>>
    /\ \E p \in passes : p.pc = "fetching" /\ p.attached

\* ------------------------------------------------------ crash recovery
\* the ids of the entries of the persisted History
C35_Recorded == {Persisted(storedHistory)[i].id : i \in 1..Len(Persisted(storedHistory))}

\* the process has ended at least once and initializeQueue() has loaded and
\* reset the stored list
C35_Recovered == restarts > 0 /\ startup.pc \in {"saving", "done"}

\* C35: after the process ended at some point of a pass and the startup
\* recovery has run, no Job of the Job list is Pending while the persisted
\* History holds an entry with its id.
C35_NoRecordedPending ==
    C35_Recovered
        => \A i \in QueueIdx :
              downloadQueue[i].status = "pending" => downloadQueue[i].id \notin C35_Recorded

\* ------------------------------------------------------------ retryAll
\* the step in which addToQueue() rejects the new Job of call t of
\* retryAllFailed() as a duplicate
C36_Rejected(t) == t.all /\ RetryAdd(t) /\ Exists(downloadQueue, t.item.videoId)

\* C36: a Failed entry whose retry is rejected inside retryAll() (a Job of
\* its resource is already Pending or Active, for instance the Job made from
\* another Failed entry of the same resource) is in History after the
\* rejection and when retryAll() returns.
C36_RejectedStaysInHistory ==
    [][\A t \in retries :
          C36_Rejected(t)
              => \E k \in 1..Len(downloadHistory') :
                    /\ downloadHistory'[k].id = t.id
                    /\ downloadHistory'[k].status = "failed"]_vars

\* ---------------------------------------------------- concurrent retry
\* the retryFromHistory() calls in flight for the History entry with this id
C37_Calls(id) == {t \in retries : t.id = id}

\* the ids of the entries that were in History before the first command
C37_OldIds == {RetryHistory[k].id : k \in 1..Len(RetryHistory)}

\* a retry command for an entry whose retry is already in flight answers
\* with an error and starts nothing
C37_SecondRetry ==
    \A id \in C37_OldIds :
        (RetryFromHistory(id) /\ C37_Calls(id) # {})
            => /\ ~reply'.success
               /\ UNCHANGED <<retries, downloadQueue, downloadHistory, nextId>>

\* a step starts at most one call for an entry, takes the entry out of
\* History, and never starts a call for an entry that has one in flight
C37_OneCall ==
    \A id \in C37_OldIds :
        /\ Cardinality({t \in retries' : t.id = id}) <= 1
        /\ (C37_Calls(id) = {} /\ {t \in retries' : t.id = id} # {})
              => /\ \E k \in HistIdx : downloadHistory[k].id = id
                 /\ \A k \in 1..Len(downloadHistory') : downloadHistory'[k].id # id

\* once the stored History is loaded, an entry that left History does not
\* come back
C37_NotRestored ==
    \A id \in C37_OldIds :
        (startup.pc # "history" /\ \A k \in HistIdx : downloadHistory[k].id # id)
            => \A k \in 1..Len(downloadHistory') : downloadHistory'[k].id # id

\* each call appends at most one Job, the one it built from its entry
C37_OneJob ==
    \A t \in retries :
        RetryAdd(t) => \/ downloadQueue' = downloadQueue
                       \/ downloadQueue' = Append(downloadQueue, t.item)

\* C37: two retry commands for the same Failed entry, or a retry command and
\* retryAll(), in any interleaving of their steps, start at most one call
\* that can make a Job for that entry; the command that comes second answers
\* with an error, and the one call appends at most one Job.
C37_AtMostOneJob ==
    [][C37_SecondRetry /\ C37_OneCall /\ C37_NotRestored /\ C37_OneJob]_vars

\* C37 witness: a retry of the entry with retryCount 1 is in flight, its
\* entry is out of History, no Job has been made yet, and a retry command
\* has just been answered "Item not found in history".
C37_Witness ==
    /\ \E t \in retries : t.id = MaxIds + 2 /\ ~t.all /\ t.pc = "removing"
    /\ Cardinality(retries) = 1
    /\ retryAll.pc = "idle"
    /\ downloadQueue = <<>>
    /\ Len(downloadHistory) = Len(RetryHistory) - 1
    /\ nextId = 2
    /\ reply = Failure("Item not found in history")

\* ------------------------------------------------------ Fetching entry
\* an entry is Fetching exactly while a request for its resource is
\* outstanding
C38_FetchingWhileOutstanding ==
    \A vid \in Videos :
        (videoInfoCache[vid].state = "fetching") = (Outstanding(vid) # {})

\* while a request for the resource is outstanding a prefetch trigger sends
\* nothing and leaves the cache as it is ...
C38_PrefetchStep ==
    \A vid \in Videos :
        ((PrefetchInfo(vid) \/ TabUpdated(vid)) /\ Outstanding(vid) # {})
            => /\ UNCHANGED <<videoInfoCache, prefetches, fetched>>
               /\ found'.called => found'.data = NoData

\* ... and a lookup, at the call or at a poll, returns no data and leaves
\* the entry, whatever the entry's age
C38_LookupStep ==
    /\ \A vid \in Videos :
          (GetCachedInfo(vid) /\ Outstanding(vid) # {})
              => /\ found'.data = NoData
                 /\ UNCHANGED <<videoInfoCache, prefetches, fetched>>
    /\ \A w \in lookups :
          (Poll(w) /\ Outstanding(w.videoId) # {})
              => /\ found'.data = NoData
                 /\ UNCHANGED <<videoInfoCache, prefetches, fetched>>

\* C38: a cache entry is Fetching exactly while a request for its resource
\* is outstanding; until that request ends, every prefetch for the resource
\* is a no-op and every lookup returns None and leaves the entry in place,
\* however old the entry is.
C38_FetchingGuards ==
    /\ []C38_FetchingWhileOutstanding
    /\ [][C38_PrefetchStep /\ C38_LookupStep]_vars

\* C38 witness: a lookup has just returned None for an entry that has been
\* Fetching for the whole TTL, and its request is still outstanding.
C38_Witness ==
    \E vid \in Awaited :
        /\ videoInfoCache[vid].state = "fetching"
        /\ now - videoInfoCache[vid].timestamp >= CACHE_TTL
        /\ Outstanding(vid) # {}
        /\ found = Got(vid, NoData)
        /\ \E w \in lookups : w.videoId = vid /\ w.i = 0

\* ------------------------------------------------------- lookup effect
\* what a lookup for vid may do to the Map: nothing, or delete the entry of
\* vid when it is Ready and expired
C39_OnlyEvicts(vid) ==
    \A v \in Videos :
        \/ videoInfoCache'[v] = videoInfoCache[v]
        \/ /\ v = vid
           /\ Expired(videoInfoCache[v], now')
           /\ videoInfoCache'[v] = Absent

C39_CallStep ==
    \A vid \in Videos :
        GetCachedInfo(vid)
            => /\ UNCHANGED <<prefetches, fetched>>
               /\ C39_OnlyEvicts(vid)
               /\ videoInfoCache[vid].state = "absent"
                     => /\ found' = Found(vid, NoData)
                        /\ UNCHANGED <<lookups, waited, now>>

C39_PollStep ==
    \A w \in lookups :
        Poll(w) => /\ UNCHANGED <<prefetches, fetched>>
                   /\ C39_OnlyEvicts(w.videoId)

\* C39: a lookup, and a lookupAwait at its call and at each of its polls,
\* sends no request and writes no entry; the only change it can make to the
\* cache is the removal of the expired Ready entry it asked for; a
\* lookupAwait for an absent entry is answered None in the step of the call
\* and sets no timer.
C39_LookupReadOnly == [][C39_CallStep /\ C39_PollStep]_vars

\* C39 witness: a lookupAwait has just removed the entry of the resource's
\* only request, expired, and was answered None at once.
C39_Witness ==
    \E vid \in Awaited :
        /\ found = Found(vid, NoData)
        /\ videoInfoCache[vid] = Absent
        /\ fetched[vid] = 1 /\ prefetches = {}
        /\ now = CACHE_TTL
        /\ lookups = {} /\ waited = 0

====
